---------------------------- MODULE Spec2Model ----------------------------
(***************************************************************************)
(* A model of the GoCart TypeScript SDK generator (sdk-ts-gen).            *)
(*                                                                         *)
(* Text is modelled as a sequence of one-character strings, so that the    *)
(* case conversions and the bracket parsing are computed character by     *)
(* character, as the Go code computes them.                                *)
(*                                                                         *)
(* The specifications of the module:                                       *)
(*   SpecNames       the naming and bracket helpers applied to wire names  *)
(*   Spec            generation runs over an OpenAPI document              *)
(*   SpecParams      generation runs, varying sort and include parameters  *)
(*   SpecMethods     generation runs, varying one operation                *)
(*   SpecMain        the command from its flags to the files it writes     *)
(*   SpecTypes       the type resolvers applied to one schema node         *)
(*   SpecContent     the content-type dispatch of the response typing      *)
(*   SpecClient      a request method of the generated client at run time  *)
(*   SpecConcurrent  two request methods in flight at once                 *)
(***************************************************************************)
EXTENDS Naturals, Sequences, FiniteSets, TLC

VARIABLES
    wireName,      \* SpecNames: the parameter name the helpers are applied to
    nameResult,    \* SpecNames: what the last helper returned
    doc,           \* Spec: the loaded OpenAPI document
    pc,            \* Spec: position of main()
    run,           \* Spec: number of the generation run in progress
    typeDefinitions,   \* Spec: result of getTypeDefinitions
    paramDefinitions,  \* Spec: result of getParamDefinitions
    methodDefinitions, \* Spec: result of getMethodDefinitions
    typesOut,      \* Spec: what generateTypes rendered
    sdkOut,        \* Spec: what generateSDK rendered
    paramsOut,     \* Spec: what generateParams rendered
    written,       \* Spec: the contents of the files written by this run
    previous,      \* Spec: the outputs of the previous run on the same document
    reqInterceptors,   \* SpecClient: this.interceptors.request.interceptors
    respInterceptors,  \* SpecClient: this.interceptors.response.interceptors
    calls,         \* SpecClient: the request methods in flight
    mediaTypes,    \* SpecContent: the content types one response declares
    handling,      \* SpecContent: what the last operation on them returned
    schemaNode,    \* SpecTypes: the schema node a resolver is applied to
    typeResult,    \* SpecTypes: what the resolver returned
    invocation,    \* SpecMain: the flags and the input the command is run with
    files          \* SpecMain: the files the command has written, by path

nameVars == <<wireName, nameResult>>
genVars == <<doc, pc, run, typeDefinitions, paramDefinitions, methodDefinitions,
             typesOut, sdkOut, paramsOut, written, previous>>
clientVars == <<reqInterceptors, respInterceptors, calls>>
contentVars == <<mediaTypes, handling>>
typeVars == <<schemaNode, typeResult>>
mainVars == <<invocation, files>>
vars == <<wireName, nameResult, doc, pc, run, typeDefinitions, paramDefinitions,
          methodDefinitions, typesOut, sdkOut, paramsOut, written, previous,
          reqInterceptors, respInterceptors, calls, mediaTypes, handling,
          schemaNode, typeResult, invocation, files>>

(***************************************************************************)
(* Bounds of the model.                                                    *)
(***************************************************************************)
MaxNameLen == 5
MaxKeyLen == 3

(***************************************************************************)
(* Characters (package unicode, ASCII range).                              *)
(***************************************************************************)
Lowers == <<"a","b","c","d","e","f","g","h","i","j","k","l","m",
            "n","o","p","q","r","s","t","u","v","w","x","y","z">>
Uppers == <<"A","B","C","D","E","F","G","H","I","J","K","L","M",
            "N","O","P","Q","R","S","T","U","V","W","X","Y","Z">>
Digits == {"0","1","2","3","4","5","6","7","8","9"}

Range(s) == {s[i] : i \in DOMAIN s}

IndexIn(s, c) == CHOOSE i \in DOMAIN s : s[i] = c

IsUpper(c) == c \in Range(Uppers)

IsLower(c) == c \in Range(Lowers)

IsLetter(c) == IsUpper(c) \/ IsLower(c)

IsDigit(c) == c \in Digits

ToLowerCh(c) == IF IsUpper(c) THEN Lowers[IndexIn(Uppers, c)] ELSE c

ToUpperCh(c) == IF IsLower(c) THEN Uppers[IndexIn(Lowers, c)] ELSE c

\* The regular expression class \w.
IsWordCh(c) == IsLetter(c) \/ IsDigit(c) \/ c = "_"

(***************************************************************************)
(* Package strings.                                                        *)
(***************************************************************************)
ToLower(s) == [i \in DOMAIN s |-> ToLowerCh(s[i])]

\* strings.Title's word boundary: ASCII letters, digits and the underscore
\* are not separators, every other ASCII character is.
isSeparator(c) == ~IsWordCh(c)

\* strings.Title: the first letter of every word in upper case.  The
\* previous character starts as a space.
Title(s) ==
    [i \in DOMAIN s |->
        IF isSeparator(IF i = 1 THEN " " ELSE s[i - 1])
        THEN ToUpperCh(s[i]) ELSE s[i]]

HasPrefix(s, p) == Len(s) >= Len(p) /\ SubSeq(s, 1, Len(p)) = p

HasSuffix(s, p) ==
    Len(s) >= Len(p) /\ SubSeq(s, Len(s) - Len(p) + 1, Len(s)) = p

TrimPrefix(s, p) == IF HasPrefix(s, p) THEN SubSeq(s, Len(p) + 1, Len(s)) ELSE s

TrimSuffix(s, p) == IF HasSuffix(s, p) THEN SubSeq(s, 1, Len(s) - Len(p)) ELSE s

ContainsCh(s, c) == \E i \in DOMAIN s : s[i] = c

\* strings.Index for a one-character separator, as a position from 1
\* (0 when absent).
IndexCh(s, c) ==
    IF ContainsCh(s, c)
    THEN CHOOSE i \in DOMAIN s : s[i] = c /\ \A j \in 1..(i - 1) : s[j] # c
    ELSE 0

\* strings.Split on a one-character separator: always at least one part.
RECURSIVE Split(_, _)
Split(s, c) ==
    IF ~ContainsCh(s, c) THEN <<s>>
    ELSE LET p == IndexCh(s, c)
         IN <<SubSeq(s, 1, p - 1)>> \o Split(SubSeq(s, p + 1, Len(s)), c)

\* strings.Join with the separator sep.
RECURSIVE Join(_, _)
Join(parts, sep) ==
    IF Len(parts) = 0 THEN <<>>
    ELSE IF Len(parts) = 1 THEN parts[1]
    ELSE parts[1] \o sep \o Join(Tail(parts), sep)

(***************************************************************************)
(* Naming helpers of the generator.                                        *)
(***************************************************************************)
\* isAllUpper: no letter of s is lower case.
isAllUpper(s) == \A i \in DOMAIN s : ~(~IsUpper(s[i]) /\ IsLetter(s[i]))

toCamelCase(input) ==
    IF input = <<>> THEN <<>>
    ELSE LET in2 == IF Head(input) = "_" THEN Tail(input) ELSE input
             parts == Split(in2, "_")
             conv == [i \in DOMAIN parts |->
                         IF i = 1 THEN ToLower(parts[i]) ELSE Title(parts[i])]
         IN Join(conv, <<>>)

toPascalCase(input) ==
    LET parts == Split(input, "_")
        conv == [i \in DOMAIN parts |->
                    IF isAllUpper(parts[i]) /\ Len(parts[i]) > 1
                    THEN parts[i] ELSE Title(parts[i])]
    IN Join(conv, <<>>)

toSnakeCase(input) ==
    IF input = <<>> THEN <<>>
    ELSE LET in2 == IF Head(input) = "_" THEN Tail(input) ELSE input
             piece(i) == IF IsUpper(in2[i])
                         THEN (IF i > 1 THEN <<"_">> ELSE <<>>)
                              \o <<ToLowerCh(in2[i])>>
                         ELSE <<in2[i]>>
         IN Join([i \in DOMAIN in2 |-> piece(i)], <<>>)

\* The positions of a "[" at which the regular expression (\w+)\[(\w+)\]
\* matches: a word character before it, a run of word characters after it,
\* closed by "]".
BracketMatches(s) ==
    {j \in DOMAIN s :
        /\ s[j] = "["
        /\ j > 1
        /\ IsWordCh(s[j - 1])
        /\ \E e \in (j + 2)..Len(s) :
              /\ s[e] = "]"
              /\ \A t \in (j + 1)..(e - 1) : IsWordCh(s[t])}

Min(S) == CHOOSE m \in S : \A n \in S : m <= n

\* parseBracketParam: FindStringSubmatch returns the leftmost match, whose
\* first group is the whole run of word characters before the "[".
parseBracketParam(param) ==
    IF BracketMatches(param) = {} THEN <<<<>>, <<>>>>
    ELSE LET j == Min(BracketMatches(param))
             start == Min({p \in 1..(j - 1) :
                             \A t \in p..(j - 1) : IsWordCh(param[t])})
             e == Min({q \in (j + 2)..Len(param) : param[q] = "]"})
         IN <<SubSeq(param, start, j - 1), SubSeq(param, j + 1, e - 1)>>

\* extractPathParams: the contents of every {...} of the path, in order.
RECURSIVE extractPathParams(_)
extractPathParams(path) ==
    LET opens == {j \in DOMAIN path :
                    /\ path[j] = "{"
                    /\ \E e \in (j + 2)..Len(path) :
                          /\ path[e] = "}"
                          /\ \A t \in (j + 1)..(e - 1) : path[t] # "}"}
    IN IF opens = {} THEN <<>>
       ELSE LET j == Min(opens)
                e == Min({q \in (j + 2)..Len(path) : path[q] = "}"})
            IN <<SubSeq(path, j + 1, e - 1)>>
               \o extractPathParams(SubSeq(path, e + 1, Len(path)))

\* getRefName: the last segment of a $ref.
getRefName(ref) == LET parts == Split(ref, "/") IN parts[Len(parts)]

\* stripPageParams: page[number] -> number.
stripPageParams(p) ==
    TrimSuffix(TrimPrefix(p, <<"p","a","g","e","[">>), <<"]">>)

(***************************************************************************)
(* Query parameters.                                                       *)
(***************************************************************************)
S_filterOpen == <<"f","i","l","t","e","r","[">>
S_pageOpen == <<"p","a","g","e","[">>
S_sort == <<"s","o","r","t">>
S_include == <<"i","n","c","l","u","d","e">>
S_lesh == <<"l","e","s","h">>
S_query == <<"q","u","e","r","y">>

\* A schema reference that is absent (a nil *openapi3.SchemaRef).
NoSchema == [nil |-> TRUE]

\* QueryParameter as extractQueryParameters builds it.
QueryParameter(name, schema, required, sdkType) ==
    [Name |-> name, In |-> S_query, Schema |-> schema, Required |-> required,
     SDKType |-> sdkType]

\* Whether groupParameters treats the name as nested: it contains "[" and
\* ends with "]".
isNestedName(name) == ContainsCh(name, "[") /\ HasSuffix(name, <<"]">>)

\* The group a parameter is filed under.
groupOf(param) ==
    IF isNestedName(param.Name)
    THEN SubSeq(param.Name, 1, IndexCh(param.Name, "[") - 1)
    ELSE param.Name

\* The parameter as it is stored in its group.
groupedParam(param) ==
    IF isNestedName(param.Name)
    THEN [param EXCEPT !.Name = SubSeq(param.Name, IndexCh(param.Name, "[") + 1,
                                       Len(param.Name) - 1)]
    ELSE param

SeqMap(Op(_), s) == [i \in DOMAIN s |-> Op(s[i])]

\* groupParameters: group name -> the group's parameters, in input order.
groupParameters(params) ==
    [g \in {groupOf(params[i]) : i \in DOMAIN params} |->
        SeqMap(groupedParam, SelectSeq(params, LAMBDA p : groupOf(p) = g))]

(***************************************************************************)
(* generateMethod: the query string block.  A statement of the emitted     *)
(* method is a record; "key" is the first argument of queryString.append.  *)
(***************************************************************************)
\* The append emitted for one entry of filterParams (whose Name has been
\* through toCamelCase already).
filterAppend(fp) ==
    LET pk == parseBracketParam(fp.Name)
    IN IF pk[1] = <<>> \/ pk[2] = <<>>
       THEN [op |-> "append", group |-> "filter", form |-> "fallback",
             key |-> fp.Name \o S_lesh,
             value |-> <<toCamelCase(fp.Name)>>]
       ELSE [op |-> "append", group |-> "filter", form |-> "leaf",
             key |-> toCamelCase(pk[1]) \o <<"[">> \o toSnakeCase(pk[2]) \o <<"]">>,
             value |-> <<toCamelCase(pk[1]), pk[2]>>]

sortAppend(sp) ==
    [op |-> "append", group |-> "sort", form |-> "joined",
     key |-> sp.Name, value |-> <<toCamelCase(sp.Name)>>]

pageAppend(pp) ==
    [op |-> "append", group |-> "page", form |-> "leaf",
     key |-> S_pageOpen \o pp.Name \o <<"]">>,
     value |-> <<<<"p","a","g","e">>, toCamelCase(pp.Name)>>]

includeAppend(ip) ==
    [op |-> "append", group |-> "include", form |-> "joined",
     key |-> S_include, value |-> <<S_include>>]

\* A switch whose default case files the parameter with the sort
\* parameters, so that it is appended under its own name.
queryClassSending(qp) ==
    IF HasPrefix(qp.Name, S_filterOpen) THEN "filter"
    ELSE IF HasPrefix(qp.Name, S_pageOpen) THEN "page"
    ELSE IF qp.Name = S_include THEN "include"
    ELSE "sort"

\* The switch that sorts the query parameters into the four lists.
queryClass(qp) ==
    IF HasPrefix(qp.Name, S_filterOpen) THEN "filter"
    ELSE IF qp.Name = S_sort THEN "sort"
    ELSE IF HasPrefix(qp.Name, S_pageOpen) THEN "page"
    ELSE IF qp.Name = S_include THEN "include"
    ELSE "other"

asFilterParam(qp) == [qp EXCEPT !.Name = toCamelCase(qp.Name)]

asPageParam(qp) == [qp EXCEPT !.Name = stripPageParams(qp.Name)]

\* The statements between "const queryString" and "let finalUrl".
queryStatements(query) ==
    LET filterParams ==
            SeqMap(asFilterParam, SelectSeq(query, LAMBDA q : queryClass(q) = "filter"))
        sortParams == SelectSeq(query, LAMBDA q : queryClass(q) = "sort")
        pageParams ==
            SeqMap(asPageParam, SelectSeq(query, LAMBDA q : queryClass(q) = "page"))
        includeParams == SelectSeq(query, LAMBDA q : queryClass(q) = "include")
    IN <<[op |-> "queryString"]>>
       \o (IF Len(filterParams) > 0
           THEN <<[op |-> "ifParams", group |-> "filter"]>>
                \o SeqMap(filterAppend, filterParams)
           ELSE <<>>)
       \o SeqMap(sortAppend, sortParams)
       \o (IF Len(pageParams) > 0
           THEN <<[op |-> "ifParams", group |-> "page"]>>
                \o SeqMap(pageAppend, pageParams)
           ELSE <<>>)
       \o (IF Len(includeParams) > 0
           THEN <<[op |-> "ifParams", group |-> "include"],
                  includeAppend(includeParams[1])>>
           ELSE <<>>)
       \o <<[op |-> "finalUrl", from |-> "queryString"]>>

(***************************************************************************)
(* SpecNames: the helpers applied to one wire name.                        *)
(***************************************************************************)
NameChars == {"a", "B", "_", "2", "[", "]", "-"}

KeyChars == {"a", "B", "_", "2", "-"}

SeqsUpTo(S, n) == UNION {[1..k -> S] : k \in 0..n}

\* Short names of any shape, and filter[<key>] for every short key.
WireNames ==
    SeqsUpTo(NameChars, MaxNameLen)
    \cup {S_filterOpen \o k \o <<"]">> : k \in SeqsUpTo(KeyChars, MaxKeyLen)}

NoResult == [op |-> "none"]

\* The client text before generateSDK has written any of it.
NoSDK ==
    [importTypes |-> <<>>, importAPIError |-> FALSE, importParams |-> <<>>,
     methods |-> <<>>]

GenIdle ==
    /\ doc = <<>>
    /\ pc = "idle"
    /\ run = 0
    /\ typeDefinitions = <<>>
    /\ paramDefinitions = <<>>
    /\ methodDefinitions = <<>>
    /\ typesOut = <<>>
    /\ sdkOut = NoSDK
    /\ paramsOut = <<>>
    /\ written = <<>>
    /\ previous = <<>>

ClientIdle ==
    /\ reqInterceptors = <<>>
    /\ respInterceptors = <<>>
    /\ calls = <<>>

ContentIdle ==
    /\ mediaTypes = {}
    /\ handling = NoResult

NamesIdle ==
    /\ wireName = <<>>
    /\ nameResult = NoResult

MainIdle ==
    /\ invocation = <<>>
    /\ files = <<>>

TypesIdle ==
    /\ schemaNode = <<>>
    /\ typeResult = NoResult

InitNames ==
    /\ wireName \in WireNames
    /\ nameResult = NoResult
    /\ GenIdle
    /\ ClientIdle
    /\ ContentIdle
    /\ TypesIdle
    /\ MainIdle

\* generateTypeScriptInterface groups the operation's query parameters.
GroupParameters ==
    /\ nameResult = NoResult
    /\ nameResult' =
          [op |-> "groupParameters",
           groups |-> groupParameters(<<QueryParameter(wireName, NoSchema, FALSE, <<>>)>>)]
    /\ UNCHANGED <<mainVars, typeVars, wireName, genVars, clientVars, contentVars>>

ParseBracketParam ==
    /\ nameResult = NoResult
    /\ nameResult' =
          [op |-> "parseBracketParam",
           parent |-> parseBracketParam(wireName)[1],
           key |-> parseBracketParam(wireName)[2]]
    /\ UNCHANGED <<mainVars, typeVars, wireName, genVars, clientVars, contentVars>>

\* generateMethod emits the query string block for the one query parameter.
EmitQueryString ==
    /\ nameResult = NoResult
    /\ nameResult' =
          [op |-> "queryStatements",
           statements |->
               queryStatements(<<QueryParameter(wireName, NoSchema, FALSE, <<>>)>>)]
    /\ UNCHANGED <<mainVars, typeVars, wireName, genVars, clientVars, contentVars>>

NextNames == GroupParameters \/ ParseBracketParam \/ EmitQueryString

SpecNames == InitNames /\ [][NextNames]_vars

(***************************************************************************)
(* Claims about the bracket helpers (checked under SpecNames).             *)
(***************************************************************************)
\* A wire name of the form <group>[<key>]: it has a "[" and ends with "]".
IsBracketForm(name) ==
    /\ Len(name) >= 2
    /\ name[Len(name)] = "]"
    /\ \E p \in 1..(Len(name) - 1) : name[p] = "["

\* C5: a name <group>[<key>] is grouped under <group> with local key <key>,
\* and <group>[<key>] re-assembled from the result is the wire name again; a
\* name without the bracket form is not split: parseBracketParam returns
\* the empty pair and groupParameters files it alone under its own name.
C5_BracketRoundTrip ==
    /\ nameResult.op = "groupParameters" =>
          LET groups == nameResult.groups
          IN /\ Cardinality(DOMAIN groups) = 1
             /\ \A g \in DOMAIN groups :
                   /\ Len(groups[g]) = 1
                   /\ IF IsBracketForm(wireName)
                      THEN g \o <<"[">> \o groups[g][1].Name \o <<"]">> = wireName
                      ELSE g = wireName /\ groups[g][1].Name = wireName
    /\ (nameResult.op = "parseBracketParam" /\ ~IsBracketForm(wireName)) =>
          (nameResult.parent = <<>> /\ nameResult.key = <<>>)

\* The filter[<key>] names.
IsFilterName(name) == HasPrefix(name, S_filterOpen) /\ HasSuffix(name, <<"]">>)

\* C6: the append emitted for a query parameter filter[k] uses the key
\* filter[k], the wire name, for every key k.
C6_FilterKeyIsWireName ==
    (nameResult.op = "queryStatements" /\ IsFilterName(wireName)) =>
        \A i \in DOMAIN nameResult.statements :
            LET st == nameResult.statements[i]
            IN (st.op = "append" /\ st.group = "filter") => st.key = wireName


(***************************************************************************)
(* The OpenAPI document.  Text is a sequence of characters throughout.     *)
(*   SchemaRef : [Ref, Value]    (Ref = <<>> for an inline schema; the     *)
(*                                loader fills Value of a $ref as well)     *)
(*   Schema    : [Type, Format, Enum, Nullable, Required, Properties,      *)
(*                Items]                                                   *)
(*   A Go map is a function; a nil pointer is Nil.                         *)
(***************************************************************************)
Nil == NoSchema

EmptyMap == [k \in {} |-> Nil]

Schema(type, format, enum, nullable, required, properties, items) ==
    [Type |-> type, Format |-> format, Enum |-> enum, Nullable |-> nullable,
     Required |-> required, Properties |-> properties, Items |-> items]

Inline(schema) == [Ref |-> <<>>, Value |-> schema]

S_refPrefix == <<"#","/","c","o","m","p","o","n","e","n","t","s","/","s","c","h","e","m","a","s","/">>

\* A $ref to a component schema, with the value the loader resolved it to.
RefTo(name, value) == [Ref |-> S_refPrefix \o name, Value |-> value]

S_any == <<"a","n","y">>
S_string == <<"s","t","r","i","n","g">>
S_number == <<"n","u","m","b","e","r">>
S_boolean == <<"b","o","o","l","e","a","n">>
S_null == <<"n","u","l","l">>
S_void == <<"v","o","i","d">>
S_object == <<"o","b","j","e","c","t">>
S_array == <<"a","r","r","a","y">>
S_integer == <<"i","n","t","e","g","e","r">>
S_Blob == <<"B","l","o","b">>
S_Date == <<"D","a","t","e">>
S_brackets == <<"[","]">>
S_anyArray == <<"a","n","y","[","]">>
S_bar == <<" ","|"," ">>
S_embedded == <<"_","e","m","b","e","d","d","e","d">>
S_binary == <<"b","i","n","a","r","y">>
S_dateTime == <<"d","a","t","e","-","t","i","m","e">>

\* typeMapping: OpenAPI type -> TypeScript type.
typeMapping ==
    (S_integer :> S_number) @@ (S_number :> S_number) @@ (S_string :> S_string)
    @@ (S_boolean :> S_boolean) @@ (S_object :> S_any) @@ (S_array :> <<>>)
    @@ (S_null :> S_null)

\* Byte order of the characters that occur in names, for sort.Strings.
ByteOrder ==
    <<" ", "'", "-", "/">> \o <<"0","1","2","3","4","5","6","7","8","9">>
    \o <<";", "=">> \o Uppers \o <<"[", "]", "_">> \o Lowers \o <<"{", "|", "}">>

Code(c) == IndexIn(ByteOrder, c)

\* Go's string comparison a < b.
RECURSIVE LessStr(_, _)
LessStr(a, b) ==
    IF b = <<>> THEN FALSE
    ELSE IF a = <<>> THEN TRUE
    ELSE IF Head(a) = Head(b) THEN LessStr(Tail(a), Tail(b))
    ELSE Code(Head(a)) < Code(Head(b))

\* The orders in which a range over a map with key set S may visit it.
Perms(S) ==
    {p \in [1..Cardinality(S) -> S] : \A i, j \in DOMAIN p : i # j => p[i] # p[j]}

\* sort.Strings over the key set S.
SortStrings(S) ==
    CHOOSE p \in Perms(S) : \A i, j \in DOMAIN p : i < j => LessStr(p[i], p[j])

\* sort.Strings over a slice.
SortStringSlice(s) ==
    LET order == CHOOSE p \in Perms(DOMAIN s) :
                    \A i, j \in DOMAIN p : i < j => ~LessStr(s[p[j]], s[p[i]])
    IN [i \in DOMAIN s |-> s[order[i]]]

\* contains: whether the slice holds the string.
contains(slice, str) == \E i \in DOMAIN slice : slice[i] = str

\* removeDuplicates: the first occurrence of every element, in order.
removeDuplicates(elements) ==
    LET keep == SelectSeq([i \in DOMAIN elements |-> <<i, elements[i]>>],
                          LAMBDA e : \A j \in 1..(e[1] - 1) : elements[j] # e[2])
    IN [k \in DOMAIN keep |-> keep[k][2]]

\* isObject: "object" among the types, or at least one property.
isObject(schema) ==
    \/ \E i \in DOMAIN schema.Type : ToLower(schema.Type[i]) = S_object
    \/ DOMAIN schema.Properties # {}

\* isArray: "array" among the types.
isArray(schema) == \E i \in DOMAIN schema.Type : ToLower(schema.Type[i]) = S_array

\* Type.Is(t): the schema has exactly the one type t.
TypeIs(schema, t) == schema.Type = <<t>>

\* An enum value as the document holds it: a string, or a number or a
\* boolean with the text that %v prints for it.
EnumString(text) == [kind |-> "string", text |-> text]

EnumNumber(text) == [kind |-> "number", text |-> text]

EnumBool(text) == [kind |-> "bool", text |-> text]

\* The enum alternatives of resolveType: string values camel-cased and
\* single-quoted, the others as %v prints them.
enumAlternatives(enum) ==
    Join([i \in DOMAIN enum |->
             IF enum[i].kind = "string"
             THEN <<"'">> \o toCamelCase(enum[i].text) \o <<"'">>
             ELSE enum[i].text], S_bar)

\* resolveType: the TypeScript type expression of a schema reference.
RECURSIVE resolveType(_)
resolveType(schemaRef) ==
    IF schemaRef = Nil \/ schemaRef.Value = Nil THEN S_any
    ELSE IF schemaRef.Ref # <<>> THEN toPascalCase(getRefName(schemaRef.Ref))
    ELSE LET schema == schemaRef.Value
             mapped == {i \in DOMAIN schema.Type :
                           ToLower(schema.Type[i]) \in DOMAIN typeMapping}
         IN IF Len(schema.Enum) > 0 THEN enumAlternatives(schema.Enum)
            ELSE IF Len(schema.Type) > 0
            THEN IF mapped = {}
                 THEN Join(removeDuplicates([i \in DOMAIN schema.Type |-> S_any]),
                           S_bar)
                 ELSE LET t == schema.Type[Min(mapped)]
                      IN IF ToLower(t) = S_array /\ schema.Items # Nil
                         THEN resolveType(schema.Items) \o S_brackets
                         ELSE IF t = S_string /\ schema.Format = S_binary
                         THEN S_Blob
                         ELSE typeMapping[ToLower(t)]
            ELSE S_any

\* resolveType as generate_params.go has it: every declared type
\* contributes its mapped type to the union.
RECURSIVE resolveTypeUnion(_)
resolveTypeUnion(schemaRef) ==
    IF schemaRef = Nil \/ schemaRef.Value = Nil THEN S_any
    ELSE IF schemaRef.Ref # <<>> THEN toPascalCase(getRefName(schemaRef.Ref))
    ELSE LET schema == schemaRef.Value
             tsType(t) ==
                 IF ToLower(t) \in DOMAIN typeMapping
                 THEN IF ToLower(t) = S_array /\ schema.Items # Nil
                      THEN resolveTypeUnion(schema.Items) \o S_brackets
                      ELSE typeMapping[ToLower(t)]
                 ELSE S_any
         IN IF Len(schema.Enum) > 0 THEN enumAlternatives(schema.Enum)
            ELSE IF Len(schema.Type) > 0
            THEN Join(removeDuplicates([i \in DOMAIN schema.Type |->
                                           tsType(schema.Type[i])]), S_bar)
            ELSE S_any

\* resolveSchemaRef: the component a $ref names; found = FALSE when
\* components.schemas has no such entry.
resolveSchemaRef(schemaRef, d) ==
    IF schemaRef.Ref = <<>> THEN [found |-> TRUE, ref |-> schemaRef]
    ELSE LET refName == getRefName(schemaRef.Ref)
         IN IF refName \in DOMAIN d.Schemas
            THEN [found |-> TRUE, ref |-> d.Schemas[refName]]
            ELSE [found |-> FALSE, ref |-> Nil]

(***************************************************************************)
(* generate_types.go.  An emitted declaration is a record:                 *)
(*   [kind |-> "interface", name, members]  export interface name { ... }  *)
(*   [kind |-> "alias", name, type]         export type name = type;       *)
(*   [kind |-> "empty"]                     the empty text of a failure    *)
(* and a member line is [name, type, optional, orNull]:                    *)
(*   name: type;   name?: type;   name?: type | null;                      *)
(***************************************************************************)
S_json == <<"a","p","p","l","i","c","a","t","i","o","n","/","j","s","o","n">>
S_multipart == <<"m","u","l","t","i","p","a","r","t","/","f","o","r","m","-","d","a","t","a">>
S_html == <<"t","e","x","t","/","h","t","m","l">>
S_Request == <<"R","e","q","u","e","s","t">>
S_Params == <<"P","a","r","a","m","s">>

Member(name, type, optional, nullable) ==
    [name |-> name, type |-> type, optional |-> optional,
     orNull |-> optional /\ nullable]

TypeDefinition(name, schemaRef, optional) ==
    [Name |-> name, SchemaRef |-> schemaRef, Optional |-> optional]

\* The inline request body gatherRequestBodies records for one operation
\* (Nil when it records none): multipart first, then JSON over it.
requestBodyOf(op) ==
    IF op.RequestBody = Nil THEN Nil
    ELSE LET content == op.RequestBody.Content
             usable(media) ==
                 /\ media \in DOMAIN content
                 /\ content[media].Schema # Nil
                 /\ op.OperationID # <<>>
                 /\ content[media].Schema.Ref = <<>>
             afterMultipart ==
                 IF usable(S_multipart) THEN content[S_multipart].Schema ELSE Nil
         IN IF S_multipart \in DOMAIN content /\ ~usable(S_multipart) THEN Nil
            ELSE IF usable(S_json) THEN content[S_json].Schema
            ELSE afterMultipart

BodyVerbs == {"POST", "PATCH", "PUT"}

\* gatherRequestBodies: operationId -> inline request body schema.
gatherRequestBodies(d) ==
    LET ops == {d.Paths[i].Item[v] :
                   i \in DOMAIN d.Paths, v \in BodyVerbs}
        withBody == {op \in ops : op # Nil /\ requestBodyOf(op) # Nil}
    IN [id \in {op.OperationID : op \in withBody} |->
           requestBodyOf(CHOOSE op \in withBody : op.OperationID = id)]

\* getTypeDefinitions: the component schemas in sorted order, then the
\* inline request bodies in the order the range over the map visits them.
getTypeDefinitions(d, bodyOrder) ==
    LET schemaNames == SortStrings(DOMAIN d.Schemas)
        requestBodies == gatherRequestBodies(d)
    IN [i \in DOMAIN schemaNames |->
           TypeDefinition(toPascalCase(schemaNames[i]), d.Schemas[schemaNames[i]],
                          FALSE)]
       \o [i \in DOMAIN bodyOrder |->
              TypeDefinition(toPascalCase(bodyOrder[i] \o S_Request),
                             requestBodies[bodyOrder[i]], FALSE)]

\* The schema whose properties are promoted: the resolved _embedded
\* property of the schema (Nil when there is none or it does not resolve).
embeddedSchemaOf(schemaRef, d) ==
    IF schemaRef.Value = Nil THEN Nil
    ELSE IF S_embedded \notin DOMAIN schemaRef.Value.Properties THEN Nil
    ELSE LET r == resolveSchemaRef(schemaRef.Value.Properties[S_embedded], d)
         IN IF r.found THEN r.ref.Value ELSE Nil

\* The keys of the map generateTypeScript ranges over for the promotion.
embeddedPropNames(schemaRef, d) ==
    IF embeddedSchemaOf(schemaRef, d) = Nil THEN {}
    ELSE DOMAIN embeddedSchemaOf(schemaRef, d).Properties

\* ownMember typing a property that is a reference by the schema referred
\* to, not by its name.
ownMemberFollowing(schema, propName) ==
    Member(toCamelCase(propName),
           resolveType([Ref |-> <<>>, Value |-> schema.Properties[propName].Value]),
           ~contains(schema.Required, propName), schema.Nullable)

\* The member line of an own property of the schema.
ownMember(schema, propName) ==
    Member(toCamelCase(propName), resolveType(schema.Properties[propName]),
           ~contains(schema.Required, propName), schema.Nullable)

\* embeddedMember with the required list of the _embedded schema ignored:
\* every promoted member optional.
embeddedMemberIgnoringRequired(embeddedSchema, embeddedPropName) ==
    LET embeddedProp == embeddedSchema.Properties[embeddedPropName]
    IN Member(toCamelCase(embeddedPropName), resolveType(embeddedProp), TRUE,
              embeddedProp.Value # Nil /\ embeddedProp.Value.Nullable)

\* The member line of a promoted property of the _embedded schema.
embeddedMember(embeddedSchema, embeddedPropName) ==
    LET embeddedProp == embeddedSchema.Properties[embeddedPropName]
    IN Member(toCamelCase(embeddedPropName), resolveType(embeddedProp),
              ~contains(embeddedSchema.Required, embeddedPropName),
              embeddedProp.Value # Nil /\ embeddedProp.Value.Nullable)

\* generateTypeScript; embeddedOrder is the order in which the range over
\* the _embedded schema's properties visits them.
generateTypeScript(name, schemaRef, d, embeddedOrder) ==
    LET schema == schemaRef.Value
        propNames == SortStrings(DOMAIN schema.Properties)
        ownNames == SelectSeq(propNames, LAMBDA p : p # S_embedded)
        hasEmbedded == S_embedded \in DOMAIN schema.Properties
                       /\ schema.Properties[S_embedded] # Nil
        embeddedSchema == embeddedSchemaOf(schemaRef, d)
    IN IF schema = Nil THEN [kind |-> "empty"]
       ELSE IF Len(schema.Enum) > 0
       THEN [kind |-> "alias", name |-> toPascalCase(name),
             type |-> Join([i \in DOMAIN schema.Enum |->
                               IF schema.Enum[i].kind = "string"
                               THEN <<"\"">> \o schema.Enum[i].text \o <<"\"">>
                               ELSE schema.Enum[i].text], S_bar)]
       ELSE IF isObject(schema)
       THEN IF hasEmbedded /\ embeddedSchema = Nil THEN [kind |-> "empty"]
            ELSE [kind |-> "interface", name |-> toPascalCase(name),
                  members |->
                      [i \in DOMAIN ownNames |-> ownMember(schema, ownNames[i])]
                      \o (IF hasEmbedded
                          THEN [i \in DOMAIN embeddedOrder |->
                                   embeddedMember(embeddedSchema, embeddedOrder[i])]
                          ELSE <<>>)]
       ELSE [kind |-> "alias", name |-> toPascalCase(name),
             type |-> resolveType(schemaRef)]

(***************************************************************************)
(* generate_sdk.go: method definitions.                                    *)
(*   Operation : [OperationID, Parameters, RequestBody, Responses]         *)
(*   Parameter : [Name, In, Schema, Required, SDKType]                     *)
(*   RequestBody : Nil or [Required, Content]                              *)
(*   Responses : status code -> [Content];  Content : media type ->        *)
(*               [Schema]                                                  *)
(***************************************************************************)
S_list == <<"l","i","s","t">>
S_req == <<"r","e","q">>
S_id == <<"i","d">>
S_params == <<"p","a","r","a","m","s">>
S_body == <<"b","o","d","y">>

Verbs == {"GET", "POST", "PATCH", "PUT", "DELETE"}

\* The status codes determineResponseType scans, in its order.
priority == <<200, 201, 202, 204>>

\* strings.Contains(s, sub)
ContainsStr(s, sub) ==
    \E i \in 1..(Len(s) - Len(sub) + 1) : SubSeq(s, i, i + Len(sub) - 1) = sub

\* resolveInlineType: the TypeScript type of an inline response schema.
RECURSIVE resolveInlineType(_)
resolveInlineType(schema) ==
    LET v == schema.Value
        itemType == IF v.Items.Ref # <<>>
                    THEN toPascalCase(getRefName(v.Items.Ref))
                    ELSE resolveInlineType(v.Items)
        enumType == Join([i \in DOMAIN v.Enum |->
                             IF v.Enum[i].kind = "string"
                             THEN <<"'">> \o v.Enum[i].text \o <<"'">>
                             ELSE v.Enum[i].text], S_bar)
        unionPart(t) ==
            LET openType == ToLower(t)
            IN IF openType = S_array /\ v.Items # Nil THEN <<itemType \o S_brackets>>
               ELSE IF openType \in DOMAIN typeMapping THEN <<typeMapping[openType]>>
               ELSE <<>>
        RECURSIVE unionParts(_)
        unionParts(types) ==
            IF types = <<>> THEN <<>>
            ELSE unionPart(Head(types)) \o unionParts(Tail(types))
        afterTypes == IF Len(v.Enum) > 0 THEN enumType ELSE S_any
    IN IF Len(v.Type) = 0 THEN afterTypes
       ELSE IF Len(v.Type) = 1
       THEN LET openType == ToLower(v.Type[1])
            IN IF openType = S_array
               THEN IF v.Items # Nil THEN itemType \o S_brackets ELSE S_anyArray
               ELSE IF openType \in DOMAIN typeMapping THEN typeMapping[openType]
               ELSE IF openType = S_string /\ v.Format = S_dateTime THEN S_Date
               ELSE afterTypes
       ELSE Join(unionParts(v.Type), S_bar)

\* Whether the response under the status code carries a JSON schema.
hasJSONSchema(operation, code) ==
    /\ code \in DOMAIN operation.Responses
    /\ S_json \in DOMAIN operation.Responses[code].Content
    /\ operation.Responses[code].Content[S_json].Schema # Nil

\* determineResponseType: <<type, schema reference>> of the first status
\* code of the priority list that has a JSON schema; <<"any", Nil>> if none.
determineResponseType(operation) ==
    LET hits == {i \in DOMAIN priority : hasJSONSchema(operation, priority[i])}
    IN IF hits = {} THEN <<S_any, Nil>>
       ELSE LET schema == operation.Responses[priority[Min(hits)]].Content[S_json].Schema
            IN IF schema.Ref # <<>>
               THEN <<toPascalCase(getRefName(schema.Ref)), schema>>
               ELSE <<resolveInlineType(schema), schema>>

\* generateMethodName: the operationId.
generateMethodName(operation, method, path) == operation.OperationID

\* extractParameters: the parameters grouped by location, plus the JSON
\* request body under "body".
extractParameters(operation) ==
    LET ps == operation.Parameters
        asParam(p) == [Name |-> p.Name, In |-> p.In, Schema |-> p.Schema,
                       Required |-> p.Required]
        hasBody == /\ operation.RequestBody # Nil
                   /\ S_json \in DOMAIN operation.RequestBody.Content
                   /\ operation.RequestBody.Content[S_json].Schema # Nil
        bodyParam == [Name |-> S_body, In |-> S_body,
                      Schema |-> operation.RequestBody.Content[S_json].Schema,
                      Required |-> operation.RequestBody.Required]
        locations == {ps[i].In : i \in DOMAIN ps}
                     \cup (IF hasBody THEN {S_body} ELSE {})
    IN [loc \in locations |->
           SeqMap(asParam, SelectSeq(ps, LAMBDA p : p.In = loc))
           \o (IF hasBody /\ loc = S_body THEN <<bodyParam>> ELSE <<>>)]

\* The request type name of the operation ("" when it has no usable body).
requestTypeOf(operation, methodName) ==
    IF operation.RequestBody = Nil THEN <<>>
    ELSE LET content == operation.RequestBody.Content
             named(media) ==
                 IF content[media].Schema.Ref # <<>>
                 THEN toPascalCase(getRefName(content[media].Schema.Ref))
                 ELSE toPascalCase(methodName) \o S_Request
             has(media) == media \in DOMAIN content /\ content[media].Schema # Nil
         IN IF has(S_multipart) THEN named(S_multipart)
            ELSE IF has(S_json) THEN named(S_json)
            ELSE <<>>

Argument(name, typeName, optional) ==
    [Name |-> name, Type |-> TypeDefinition(typeName, Nil, optional)]

\* The argument list the HTTP method decides.
methodArguments(method, methodName, requestType) ==
    CASE method = "POST" -> <<Argument(S_req, requestType, FALSE)>>
      [] method \in {"PATCH", "PUT"} ->
            <<Argument(S_id, S_string, FALSE), Argument(S_req, requestType, FALSE)>>
      [] method = "DELETE" -> <<Argument(S_id, S_string, FALSE)>>
      [] method = "GET" ->
            (IF ~ContainsStr(methodName, S_list)
             THEN <<Argument(S_id, S_string, FALSE)>> ELSE <<>>)
            \o <<Argument(S_params, toPascalCase(methodName) \o S_Params, TRUE)>>

\* The MethodDefinition of one operation.
MethodDefinition(method, path, operation) ==
    LET methodName == generateMethodName(operation, method, path)
        response == determineResponseType(operation)
    IN [Name |-> methodName, HTTPMethod |-> method, Path |-> path,
        Arguments |-> methodArguments(method, methodName,
                                      requestTypeOf(operation, methodName)),
        ResponseType |-> response[1],
        QueryParams |-> extractParameters(operation),
        OperationRef |-> operation,
        ResponseTypeRef |-> response[2]]

\* MethodDefinitions.Sort: by name.
SortByName(defs) ==
    LET order == CHOOSE p \in Perms(DOMAIN defs) :
                    \A i, j \in DOMAIN p :
                        i < j => ~LessStr(defs[p[j]].Name, defs[p[i]].Name)
    IN [i \in DOMAIN defs |-> defs[order[i]]]

\* getMethodDefinitions; visit lists the <<path index, verb>> pairs of the
\* operations in the order the ranges over the operation maps reach them.
getMethodDefinitions(d, visit) ==
    SortByName([i \in DOMAIN visit |->
                   MethodDefinition(visit[i][2], d.Paths[visit[i][1]].Path,
                                    d.Paths[visit[i][1]].Item[visit[i][2]])])

\* The visiting orders of getMethodDefinitions: paths in matching order,
\* the operations of one path in any order.
OperationsOf(d) ==
    {<<i, v>> \in (DOMAIN d.Paths) \X Verbs : d.Paths[i].Item[v] # Nil}

Visits(d) ==
    {p \in Perms(OperationsOf(d)) :
        \A i, j \in DOMAIN p : i < j => p[i][1] <= p[j][1]}

(***************************************************************************)
(* generate_sdk.go: generateMethod.  The text of a method is the sequence  *)
(* of its statements, each a record named by "op".                         *)
(***************************************************************************)
HasParam(arguments, name) == \E i \in DOMAIN arguments : arguments[i].Name = name

\* GetPayloadParam: whether there is an argument named req.
HasPayloadParam(arguments) == HasParam(arguments, S_req)

\* strings.ReplaceAll(s, old, new)
RECURSIVE ReplaceAll(_, _, _)
ReplaceAll(s, old, new) ==
    IF Len(s) < Len(old) \/ old = <<>> THEN s
    ELSE IF SubSeq(s, 1, Len(old)) = old
    THEN new \o ReplaceAll(SubSeq(s, Len(old) + 1, Len(s)), old, new)
    ELSE <<Head(s)>> \o ReplaceAll(Tail(s), old, new)

\* The URL template: every {p} of the path becomes ${camelCase(p)}.
RECURSIVE substitutePathParams(_, _)
substitutePathParams(url, pathParams) ==
    IF pathParams = <<>> THEN url
    ELSE substitutePathParams(
             ReplaceAll(url, <<"{">> \o Head(pathParams) \o <<"}">>,
                        <<"$", "{">> \o toCamelCase(Head(pathParams)) \o <<"}">>),
             Tail(pathParams))

\* The keys getEmbeddedKeysFromSchema may collect from a schema: the
\* _embedded properties that are objects or arrays of references.
embeddedKeyNames(schemaRef) ==
    IF S_embedded \notin DOMAIN schemaRef.Value.Properties THEN {}
    ELSE LET embeddedSchema == schemaRef.Value.Properties[S_embedded]
         IN IF embeddedSchema.Value = Nil THEN {}
            ELSE {n \in DOMAIN embeddedSchema.Value.Properties :
                     LET v == embeddedSchema.Value.Properties[n].Value
                     IN /\ v # Nil
                        /\ \/ TypeIs(v, S_object) /\ v.Items = Nil
                           \/ TypeIs(v, S_array) /\ v.Items # Nil
                              /\ v.Items.Ref # <<>>}

\* getEmbeddedKeysFromSchema, visiting the _embedded properties in the
\* order keyOrder.
getEmbeddedKeysFromSchema(schemaRef, keyOrder) ==
    SeqMap(toCamelCase,
           SelectSeq(keyOrder, LAMBDA n : n \in embeddedKeyNames(schemaRef)))

\* The schema (Nil if none) whose _embedded keys the JSON request block of
\* the method lists.
embeddedSource(d, m) ==
    LET requestSchema == m.OperationRef.RequestBody.Content[S_json].Schema
    IN IF TypeIs(requestSchema.Value, S_object)
       THEN (IF m.ResponseTypeRef # Nil /\ m.ResponseTypeRef.Value # Nil
             THEN m.ResponseTypeRef ELSE Nil)
       ELSE IF /\ TypeIs(requestSchema.Value, S_array)
               /\ requestSchema.Value.Items # Nil
               /\ requestSchema.Value.Items.Ref # <<>>
               /\ TypeIs(resolveSchemaRef(requestSchema.Value.Items, d).ref.Value,
                         S_object)
       THEN requestSchema.Value.Items
       ELSE Nil

hasContent(m, media) ==
    /\ m.OperationRef.RequestBody # Nil
    /\ media \in DOMAIN m.OperationRef.RequestBody.Content

\* The map keys a range inside generateMethod visits: the _embedded
\* properties of the embedded source, the multipart properties.
embeddedRangeOf(d, m) ==
    IF m.HTTPMethod \in BodyVerbs /\ hasContent(m, S_json)
       /\ embeddedSource(d, m) # Nil
       /\ S_embedded \in DOMAIN embeddedSource(d, m).Value.Properties
       /\ embeddedSource(d, m).Value.Properties[S_embedded].Value # Nil
    THEN DOMAIN embeddedSource(d, m).Value.Properties[S_embedded].Value.Properties
    ELSE {}

multipartRangeOf(m) ==
    IF m.HTTPMethod \in BodyVerbs /\ hasContent(m, S_multipart)
    THEN DOMAIN m.OperationRef.RequestBody.Content[S_multipart].Schema.Value.Properties
    ELSE {}

\* The statements of the JSON request block.
jsonRequestBlock(d, m, keyOrder) ==
    <<[op |-> "embeddedObjects",
       keys |-> IF embeddedSource(d, m) = Nil THEN <<>>
                ELSE getEmbeddedKeysFromSchema(embeddedSource(d, m), keyOrder)]>>
    \o (IF HasPayloadParam(m.Arguments) THEN <<[op |-> "toApiType"]>> ELSE <<>>)
    \o <<[op |-> "options", method |-> m.HTTPMethod, contentType |-> "json",
          body |-> IF HasPayloadParam(m.Arguments) THEN "json" ELSE "none"]>>

\* The statements of the multipart request block.
multipartRequestBlock(m, formOrder) ==
    LET props == m.OperationRef.RequestBody.Content[S_multipart].Schema.Value.Properties
    IN <<[op |-> "formData"]>>
       \o [i \in DOMAIN formOrder |->
              [op |-> "formAppend", key |-> formOrder[i],
               field |-> toCamelCase(formOrder[i]),
               stringify |-> TypeIs(props[formOrder[i]].Value, S_object)]]
       \o <<[op |-> "options", method |-> m.HTTPMethod, contentType |-> "none",
             body |-> "formData"]>>

\* The statements that decide the success path.
returnBlock(m) ==
    IF m.ResponseType = S_any \/ m.ResponseType = S_void
    THEN <<[op |-> "return"]>>
    ELSE <<[op |-> "json"], [op |-> "returnToClientType"]>>

\* generateMethod.
generateMethod(d, m, keyOrder, formOrder) ==
    <<[op |-> "signature", name |-> m.Name,
       args |-> [i \in DOMAIN m.Arguments |->
                    [name |-> m.Arguments[i].Name, type |-> m.Arguments[i].Type.Name,
                     default |-> m.Arguments[i].Type.Optional]],
       returns |-> m.ResponseType],
      [op |-> "url", template |-> substitutePathParams(m.Path, extractPathParams(m.Path))]>>
    \o (IF m.HTTPMethod \in BodyVerbs
        THEN (IF hasContent(m, S_json) THEN jsonRequestBlock(d, m, keyOrder) ELSE <<>>)
             \o (IF hasContent(m, S_multipart)
                 THEN multipartRequestBlock(m, formOrder) ELSE <<>>)
        ELSE <<[op |-> "options", method |-> m.HTTPMethod, contentType |-> "json",
                body |-> "none"]>>)
    \o (IF HasPrefix(m.Name, S_list) THEN <<[op |-> "totalCount"]>> ELSE <<>>)
    \o (IF HasParam(m.Arguments, S_params) /\ S_query \in DOMAIN m.QueryParams
        THEN queryStatements(m.QueryParams[S_query])
        ELSE <<[op |-> "finalUrl", from |-> "url"]>>)
    \o <<[op |-> "setHttpRequestHeaders"], [op |-> "requestInterceptors"],
         [op |-> "fetch"], [op |-> "responseInterceptors"], [op |-> "checkOk"]>>
    \o returnBlock(m)

(***************************************************************************)
(* generate_params.go.  A parameter interface is                           *)
(*   [name, groups, totalCount], a group [name, type], and the type of a   *)
(*   group is a name ([kind |-> "named", text]) or an object literal       *)
(*   ([kind |-> "nested", members], a member being [name, required, type]).*)
(***************************************************************************)
S_Option == <<"O","p","t","i","o","n">>
S_stringArray == <<"s","t","r","i","n","g","[","]">>
S_orNull == <<" ","|"," ","n","u","l","l">>
S_typeKw == <<"t","y","p","e"," ">>
S_equals == <<" ","="," ">>

\* The values extractEnumValues falls back to for an include parameter
\* without an enum.
IncludeDefaults == <<<<"'","p","a","r","e","n","t","'">>, <<"'","p","a","r","e","n","t","s","'">>, <<"'","c","h","i","l","d","r","e","n","'">>, <<"'","a","t","t","r","i","b","u","t","e","s","'">>>>

ParamDefinition(name, params, operation) ==
    [Name |-> name, Params |-> params, Operation |-> operation]

\* The text of a verb.
VerbText == [GET |-> <<"G","E","T">>, POST |-> <<"P","O","S","T">>, PATCH |-> <<"P","A","T","C","H">>, PUT |-> <<"P","U","T">>,
             DELETE |-> <<"D","E","L","E","T","E">>]

\* generateInterfaceName: from the operationId, or from the verb and the
\* path with every character that is no letter or digit made "_".
generateInterfaceName(method, path, operationID) ==
    IF operationID # <<>> THEN toPascalCase(operationID) \o S_Params
    ELSE LET cleanPath == [i \in DOMAIN path |->
                              IF IsLetter(path[i]) \/ IsDigit(path[i])
                              THEN path[i] ELSE "_"]
         IN toPascalCase(VerbText[method]) \o toPascalCase(cleanPath) \o S_Params

\* extractQueryParameters: the query parameters, with the SDK type hint.
extractQueryParameters(operation) ==
    SeqMap(LAMBDA p : QueryParameter(p.Name, p.Schema, p.Required, p.SDKType),
           SelectSeq(operation.Parameters, LAMBDA p : p.In = S_query))

\* getParamDefinitions: one definition per GET operation, paths in
\* matching order.
getParamDefinitions(d) ==
    LET gets == SelectSeq(d.Paths, LAMBDA p : p.Item["GET"] # Nil)
    IN [i \in DOMAIN gets |->
           ParamDefinition(
               generateInterfaceName("GET", gets[i].Path,
                                     gets[i].Item["GET"].OperationID),
               extractQueryParameters(gets[i].Item["GET"]),
               gets[i].Item["GET"])]

\* extractEnumValues
RECURSIVE collectEnumValues(_, _, _)
collectEnumValues(groupName, params, enumValues) ==
    IF params = <<>> THEN enumValues
    ELSE LET param == Head(params)
         IN collectEnumValues(groupName, Tail(params),
                IF param.Schema # Nil /\ Len(param.Schema.Value.Enum) > 0
                THEN LET strings == SelectSeq(param.Schema.Value.Enum,
                                              LAMBDA v : v.kind = "string")
                     IN enumValues
                        \o [i \in DOMAIN strings |->
                               <<"'">> \o toCamelCase(strings[i].text) \o <<"'">>]
                ELSE IF groupName = S_include THEN IncludeDefaults
                ELSE enumValues)

extractEnumValues(groupName, params) ==
    removeDuplicates(collectEnumValues(groupName, params, <<>>))

\* generateNestedInterface: the members of the object literal.
generateNestedInterface(params) ==
    [i \in DOMAIN params |->
        LET param == params[i]
            tsType == IF param.SDKType # <<>> THEN param.SDKType
                      ELSE IF param.Schema # Nil THEN resolveType(param.Schema)
                      ELSE S_any
        IN [name |-> toCamelCase(param.Name), required |-> param.Required,
            type |-> IF param.Schema # Nil /\ param.Schema.Value.Nullable
                     THEN tsType \o S_orNull ELSE tsType]]

\* The type of one group when the alias is named by the group alone.
groupTypeUnscoped(interfaceName, groupName, group) ==
    LET enumTypeName == toPascalCase(groupName) \o S_Option
        enumValues == extractEnumValues(groupName, group)
    IN IF groupName = S_include \/ groupName = S_sort
       THEN IF Len(enumValues) > 0
            THEN [type |-> [kind |-> "named", text |-> enumTypeName \o S_brackets],
                  additional |-> <<S_typeKw \o enumTypeName \o S_equals
                                   \o Join(enumValues, S_bar) \o <<";">> >>]
            ELSE [type |-> [kind |-> "named", text |-> S_stringArray],
                  additional |-> <<>>]
       ELSE [type |-> [kind |-> "nested", members |-> generateNestedInterface(group)],
             additional |-> <<>>]

\* The type generateTypeScriptInterface gives one group, and the type
\* aliases it adds for it.
groupType(interfaceName, groupName, group) ==
    LET enumTypeName == interfaceName \o toPascalCase(groupName) \o S_Option
        enumValues == extractEnumValues(groupName, group)
    IN IF groupName = S_include \/ groupName = S_sort
       THEN IF Len(enumValues) > 0
            THEN [type |-> [kind |-> "named", text |-> enumTypeName \o S_brackets],
                  additional |-> <<S_typeKw \o enumTypeName \o S_equals
                                   \o Join(enumValues, S_bar) \o <<";">> >>]
            ELSE [type |-> [kind |-> "named", text |-> S_stringArray],
                  additional |-> <<>>]
       ELSE [type |-> [kind |-> "nested", members |-> generateNestedInterface(group)],
             additional |-> <<>>]

RECURSIVE Flatten(_)
Flatten(ss) == IF ss = <<>> THEN <<>> ELSE Head(ss) \o Flatten(Tail(ss))

\* generateTypeScriptInterface: the interface and its additional types.
generateTypeScriptInterface(interfaceName, params, operation) ==
    LET groupedParams == groupParameters(params)
        groupNames == SortStrings(DOMAIN groupedParams)
        typed == [i \in DOMAIN groupNames |->
                     groupType(interfaceName, groupNames[i],
                               groupedParams[groupNames[i]])]
    IN [interface |->
            [name |-> interfaceName,
             groups |-> [i \in DOMAIN groupNames |->
                            [name |-> toCamelCase(groupNames[i]),
                             type |-> typed[i].type]],
             totalCount |-> HasPrefix(operation.OperationID, S_list)],
        additional |-> Flatten([i \in DOMAIN typed |-> typed[i].additional])]

\* generateParams: the interfaces in definition order, then the additional
\* types sorted.
generateParams(paramDefs) ==
    LET made == [i \in DOMAIN paramDefs |->
                    generateTypeScriptInterface(paramDefs[i].Name, paramDefs[i].Params,
                                                paramDefs[i].Operation)]
    IN [interfaces |-> [i \in DOMAIN made |-> made[i].interface],
        additionalTypes |-> SortStringSlice(Flatten([i \in DOMAIN made |-> made[i].additional]))]

(***************************************************************************)
(* The documents the generator is run on.                                  *)
(***************************************************************************)
MaxEmbeddedProps == 2

StringSchema == Schema(<<S_string>>, <<>>, <<>>, FALSE, <<>>, EmptyMap, Nil)

FormatSchema(format) == Schema(<<S_string>>, format, <<>>, FALSE, <<>>, EmptyMap, Nil)

NullableStringSchema == Schema(<<S_string>>, <<>>, <<>>, TRUE, <<>>, EmptyMap, Nil)

IntegerSchema == Schema(<<S_integer>>, <<>>, <<>>, FALSE, <<>>, EmptyMap, Nil)

EnumSchema(values) == Schema(<<S_string>>, <<>>, values, FALSE, <<>>, EmptyMap, Nil)

ObjectSchema(properties, required) ==
    Schema(<<S_object>>, <<>>, <<>>, FALSE, required, properties, Nil)

ArraySchema(items) == Schema(<<S_array>>, <<>>, <<>>, FALSE, <<>>, EmptyMap, items)

N_Item == <<"I","t","e","m">>
N_Page == <<"P","a","g","e">>
N_Embedded == <<"E","m","b","e","d","d","e","d">>

ItemSchema ==
    ObjectSchema((<<"i","d">> :> Inline(StringSchema))
                 @@ (<<"c","r","e","a","t","e","d","_","a","t">> :> Inline(FormatSchema(S_dateTime))),
                 <<<<"i","d">>>>)

ItemRef == RefTo(N_Item, ItemSchema)

\* The property schemas an _embedded schema is built from.
PropSchemas ==
    {ItemRef, Inline(ArraySchema(ItemRef)), Inline(NullableStringSchema)}

EmbeddedNames == {<<"i","t","e","m","s">>, <<"n","e","x","t","_","p","a","g","e">>, <<"O","w","n","e","r">>}

\* The _embedded schemas: up to MaxEmbeddedProps properties, any of them
\* required.
EmbeddedSchemas ==
    UNION {UNION {{ObjectSchema(props, SortStrings(req)) : req \in SUBSET names} :
                     props \in [names -> PropSchemas]} :
              names \in {ns \in SUBSET EmbeddedNames :
                            Cardinality(ns) \in 1..MaxEmbeddedProps}}

\* A page schema: own properties total (required) and next_page, and the
\* _embedded property, inline or by reference.
PageSchema(embedded) ==
    ObjectSchema((<<"t","o","t","a","l">> :> Inline(IntegerSchema))
                 @@ (<<"n","e","x","t","_","p","a","g","e">> :> Inline(StringSchema))
                 @@ (S_embedded :> embedded),
                 <<<<"t","o","t","a","l">>, <<"i","t","e","m","s">>>>)

Content(media, schema) == media :> [Schema |-> schema]

Response(content) == [Content |-> content]

Parameter(name, in, schema, required, sdkType) ==
    [Name |-> name, In |-> in, Schema |-> schema, Required |-> required,
     SDKType |-> sdkType]

Operation(operationID, parameters, requestBody, responses) ==
    [OperationID |-> operationID, Parameters |-> parameters,
     RequestBody |-> requestBody, Responses |-> responses]

RequestBody(required, content) == [Required |-> required, Content |-> content]

\* A path item: the operation of every verb, Nil where there is none.
PathItem(path, operations) ==
    [Path |-> path,
     Item |-> [v \in Verbs |-> IF v \in DOMAIN operations THEN operations[v] ELSE Nil]]

Doc(schemas, paths) == [Schemas |-> schemas, Paths |-> paths]

P_items == <<"/","i","t","e","m","s">>
P_item == <<"/","i","t","e","m","s","/","{","i","t","e","m","_","i","d","}">>
P_pages == <<"/","p","a","g","e","s">>

PathID == Parameter(<<"i","t","e","m","_","i","d">>, <<"p","a","t","h">>, Inline(StringSchema), TRUE, <<>>)

GetItem ==
    Operation(<<"g","e","t","I","t","e","m">>, <<PathID>>, Nil, 200 :> Response(Content(S_json, ItemRef)))

\* Documents that vary the _embedded schema of Page.
SchemaDocs ==
    {Doc((N_Item :> Inline(ItemSchema)) @@ (N_Page :> Inline(PageSchema(Inline(e)))),
         <<PathItem(P_item, "GET" :> GetItem)>>) : e \in EmbeddedSchemas}
    \cup
    {Doc((N_Item :> Inline(ItemSchema)) @@ (N_Embedded :> Inline(e))
         @@ (N_Page :> Inline(PageSchema(RefTo(N_Embedded, e)))),
         <<PathItem(P_item, "GET" :> GetItem)>>) : e \in EmbeddedSchemas}

S_pdf == <<"a","p","p","l","i","c","a","t","i","o","n","/","p","d","f">>
S_DateRange == <<"D","a","t","e","R","a","n","g","e">>
S_NumberRange == <<"N","u","m","b","e","r","R","a","n","g","e">>
S_CurrencyRange == <<"C","u","r","r","e","n","c","y","R","a","n","g","e">>

BaseSchemas == N_Item :> Inline(ItemSchema)

\* What a response may declare as its content.
ContentChoices ==
    {EmptyMap,
     Content(S_json, ItemRef),
     Content(S_json, Inline(ObjectSchema(EmptyMap, <<>>))),
     Content(S_json, Inline(ArraySchema(ItemRef))),
     Content(S_json, Nil),
     Content(S_html, Inline(StringSchema)),
     Content(S_html, Inline(StringSchema))
         @@ Content(S_json, Inline(ObjectSchema(EmptyMap, <<>>))),
     Content(S_pdf, Inline(FormatSchema(S_binary)))}

\* The responses of an operation: 200 and 201 each absent or with one of
\* the contents, 204 absent or without content.
ResponseChoices ==
    {r \in UNION {[codes -> ContentChoices] : codes \in SUBSET {200, 201, 204}} :
        204 \in DOMAIN r => r[204] = EmptyMap}

ResponsesOf(r) == [code \in DOMAIN r |-> Response(r[code])]

\* Documents that vary the responses of one list operation.
ResponseDocs ==
    {Doc(BaseSchemas,
         <<PathItem(P_items,
                    "GET" :> Operation(<<"l","i","s","t","I","t","e","m","s">>, <<>>, Nil, ResponsesOf(r)))>>) :
        r \in ResponseChoices}

\* The query parameters an operation is built from.
QueryChoices ==
    {Parameter(<<"f","i","l","t","e","r","[","c","r","e","a","t","e","d","_","a","t","]">>, S_query, Inline(FormatSchema(S_dateTime)),
               FALSE, S_DateRange),
     Parameter(<<"f","i","l","t","e","r","[","p","r","i","c","e","]">>, S_query, Inline(IntegerSchema), FALSE,
               S_NumberRange),
     Parameter(<<"f","i","l","t","e","r","[","t","o","t","a","l","]">>, S_query, Inline(IntegerSchema), FALSE,
               S_CurrencyRange),
     Parameter(<<"f","i","l","t","e","r","[","n","a","m","e","]">>, S_query, Inline(NullableStringSchema), TRUE, <<>>),
     Parameter(S_sort, S_query, Inline(EnumSchema(<<EnumString(<<"c","r","e","a","t","e","d","_","a","t">>), EnumString(<<"n","a","m","e">>)>>)),
               FALSE, <<>>),
     Parameter(S_include, S_query, Nil, FALSE, <<>>),
     Parameter(<<"p","a","g","e","[","n","u","m","b","e","r","]">>, S_query, Inline(IntegerSchema), FALSE, <<>>),
     Parameter(<<"q">>, S_query, Inline(StringSchema), FALSE, <<>>)}

ParameterLists ==
    {<<>>} \cup {<<p>> : p \in QueryChoices}
    \cup {pq \in QueryChoices \X QueryChoices : pq[1] # pq[2]}

ListResponses == 200 :> Response(Content(S_json, Inline(ArraySchema(ItemRef))))

\* Documents that vary the query parameters of one list operation.
ParamDocs ==
    {Doc(BaseSchemas,
         <<PathItem(P_items,
                    "GET" :> Operation(<<"l","i","s","t","I","t","e","m","s">>, ps, Nil, ListResponses))>>) :
        ps \in ParameterLists}

TwoEmbedded ==
    ObjectSchema((<<"i","t","e","m","s">> :> Inline(ArraySchema(ItemRef))) @@ (<<"O","w","n","e","r">> :> ItemRef),
                 <<>>)

InlineBody == Inline(ObjectSchema(<<"n","a","m","e">> :> Inline(StringSchema), <<<<"n","a","m","e">>>>))

UploadBody ==
    Inline(ObjectSchema((<<"f","i","l","e">> :> Inline(FormatSchema(S_binary)))
                        @@ (<<"m","e","t","a","_","d","a","t","a">> :> Inline(ObjectSchema(EmptyMap, <<>>))),
                        <<>>))

PageRef == RefTo(N_Page, PageSchema(Inline(TwoEmbedded)))

CreateItem(body, response) ==
    Operation(<<"c","r","e","a","t","e","I","t","e","m">>, <<>>, RequestBody(TRUE, body),
              201 :> Response(Content(S_json, response)))

UpdateItem(body) ==
    Operation(<<"u","p","d","a","t","e","I","t","e","m">>, <<PathID>>, RequestBody(TRUE, body),
              200 :> Response(Content(S_json, ItemRef)))

DeleteItem == Operation(<<"d","e","l","e","t","e","I","t","e","m">>, <<PathID>>, Nil, 204 :> Response(EmptyMap))

BodyChoices ==
    {Content(S_json, InlineBody), Content(S_json, PageRef),
     Content(S_multipart, UploadBody),
     Content(S_json, InlineBody) @@ Content(S_multipart, UploadBody)}

\* Documents with request bodies and several operations per path.
BodyDocs ==
    {Doc(BaseSchemas @@ (N_Page :> Inline(PageSchema(Inline(TwoEmbedded)))),
         <<PathItem(P_items,
                    ("GET" :> Operation(<<"l","i","s","t","I","t","e","m","s">>, <<>>, Nil, ListResponses))
                    @@ ("POST" :> CreateItem(b1, response))),
           PathItem(P_item,
                    ("GET" :> GetItem)
                    @@ (verb :> UpdateItem(IF verb = "PUT"
                                           THEN Content(S_json, InlineBody)
                                           ELSE Content(S_json, PageRef)))
                    @@ ("DELETE" :> DeleteItem))>>) :
        b1 \in BodyChoices, response \in {ItemRef, PageRef}, verb \in {"PUT", "PATCH"}}

Docs == SchemaDocs \cup ResponseDocs \cup ParamDocs \cup BodyDocs

(***************************************************************************)
(* Spec: main() run on one document, and run again on the same document.   *)
(***************************************************************************)
isArrayType(tsType) == HasSuffix(tsType, S_brackets)

isPrimitiveType(tsType) ==
    tsType \in {S_string, S_number, S_boolean, S_null, S_any, S_anyArray, S_void}

\* MethodDefinitions.UseType: an argument or a response of that type.
UseType(defs, typeName) ==
    \E i \in DOMAIN defs :
        \/ \E a \in DOMAIN defs[i].Arguments : defs[i].Arguments[a].Type.Name = typeName
        \/ defs[i].ResponseType = typeName

\* The names generateSDK imports from a list of definitions; APIError is
\* imported in the statement of the type imports, written when there are
\* any.
importsOf(defs, definitions) ==
    SortStringSlice(
        SeqMap(LAMBDA m : m.Name,
               SelectSeq(definitions,
                         LAMBDA m : /\ ~isPrimitiveType(m.Name)
                                    /\ ~isArrayType(m.Name)
                                    /\ UseType(defs, m.Name))))

NoText == <<>>

Init ==
    /\ doc \in Docs
    /\ pc = "getTypeDefinitions"
    /\ run = 1
    /\ typeDefinitions = <<>>
    /\ paramDefinitions = <<>>
    /\ methodDefinitions = <<>>
    /\ typesOut = NoText
    /\ sdkOut = NoSDK
    /\ paramsOut = NoText
    /\ written = <<>>
    /\ previous = <<>>
    /\ NamesIdle
    /\ ClientIdle
    /\ ContentIdle
    /\ TypesIdle
    /\ MainIdle

GetTypeDefinitions ==
    /\ pc = "getTypeDefinitions"
    /\ \E bodyOrder \in Perms(DOMAIN gatherRequestBodies(doc)) :
          typeDefinitions' = getTypeDefinitions(doc, bodyOrder)
    /\ pc' = "getParamDefinitions"
    /\ UNCHANGED <<mainVars, typeVars, doc, run, paramDefinitions, methodDefinitions, typesOut, sdkOut,
                   paramsOut, written, previous, nameVars, clientVars, contentVars>>

GetParamDefinitions ==
    /\ pc = "getParamDefinitions"
    /\ paramDefinitions' = getParamDefinitions(doc)
    /\ pc' = "generateSDK"
    /\ UNCHANGED <<mainVars, typeVars, doc, run, typeDefinitions, methodDefinitions, typesOut, sdkOut,
                   paramsOut, written, previous, nameVars, clientVars, contentVars>>

\* Where main goes once the methods of generateSDK are written.
afterMethods == IF Len(typeDefinitions) = 0 THEN "generateParams" ELSE "generateTypes"

\* generateSDK up to the loop over the method definitions.
GenerateSDK ==
    /\ pc = "generateSDK"
    /\ \E visit \in Visits(doc) :
          methodDefinitions' = getMethodDefinitions(doc, visit)
    /\ sdkOut' = [importTypes |-> importsOf(methodDefinitions', typeDefinitions),
                  importAPIError |->
                      Len(importsOf(methodDefinitions', typeDefinitions)) > 0,
                  importParams |-> importsOf(methodDefinitions', paramDefinitions),
                  methods |-> <<>>]
    /\ pc' = IF Len(methodDefinitions') = 0 THEN afterMethods ELSE "generateMethod"
    /\ UNCHANGED <<mainVars, typeVars, doc, run, typeDefinitions, paramDefinitions, typesOut, paramsOut,
                   written, previous, nameVars, clientVars, contentVars>>

\* One turn of generateSDK's loop: the next method is rendered.
GenerateMethod ==
    /\ pc = "generateMethod"
    /\ LET m == methodDefinitions[Len(sdkOut.methods) + 1]
       IN \E keyOrder \in Perms(embeddedRangeOf(doc, m)),
             formOrder \in Perms(multipartRangeOf(m)) :
             sdkOut' = [sdkOut EXCEPT !.methods =
                           Append(@, generateMethod(doc, m, keyOrder, formOrder))]
    /\ pc' = IF Len(sdkOut.methods) + 1 = Len(methodDefinitions)
             THEN afterMethods ELSE "generateMethod"
    /\ UNCHANGED <<mainVars, typeVars, doc, run, typeDefinitions, paramDefinitions, methodDefinitions,
                   typesOut, paramsOut, written, previous, nameVars, clientVars, contentVars>>

\* One turn of generateTypes' loop: the next declaration is rendered.
GenerateTypes ==
    /\ pc = "generateTypes"
    /\ LET typeDef == typeDefinitions[Len(typesOut) + 1]
       IN \E embeddedOrder \in Perms(embeddedPropNames(typeDef.SchemaRef, doc)) :
             typesOut' = Append(typesOut,
                                generateTypeScript(typeDef.Name, typeDef.SchemaRef,
                                                   doc, embeddedOrder))
    /\ pc' = IF Len(typesOut) + 1 = Len(typeDefinitions)
             THEN "generateParams" ELSE "generateTypes"
    /\ UNCHANGED <<mainVars, typeVars, doc, run, typeDefinitions, paramDefinitions, methodDefinitions,
                   sdkOut, paramsOut, written, previous, nameVars, clientVars, contentVars>>

GenerateParams ==
    /\ pc = "generateParams"
    /\ paramsOut' = generateParams(paramDefinitions)
    /\ pc' = "writeFiles"
    /\ UNCHANGED <<mainVars, typeVars, doc, run, typeDefinitions, paramDefinitions, methodDefinitions,
                   typesOut, sdkOut, written, previous, nameVars, clientVars, contentVars>>

\* main writes sdk.ts, types.ts and params.ts.
WriteFiles ==
    /\ pc = "writeFiles"
    /\ written' = [sdk |-> sdkOut, types |-> typesOut, params |-> paramsOut]
    /\ pc' = "done"
    /\ UNCHANGED <<mainVars, typeVars, doc, run, typeDefinitions, paramDefinitions, methodDefinitions,
                   typesOut, sdkOut, paramsOut, previous, nameVars, clientVars, contentVars>>

\* The generator is started a second time on the same document.
Rerun ==
    /\ pc = "done"
    /\ run = 1
    /\ run' = 2
    /\ previous' = written
    /\ pc' = "getTypeDefinitions"
    /\ typeDefinitions' = <<>>
    /\ paramDefinitions' = <<>>
    /\ methodDefinitions' = <<>>
    /\ typesOut' = NoText
    /\ sdkOut' = NoSDK
    /\ paramsOut' = NoText
    /\ written' = <<>>
    /\ UNCHANGED <<mainVars, typeVars, doc, nameVars, clientVars, contentVars>>

Next ==
    \/ GetTypeDefinitions
    \/ GetParamDefinitions
    \/ GenerateSDK
    \/ GenerateMethod
    \/ GenerateTypes
    \/ GenerateParams
    \/ WriteFiles
    \/ Rerun

Spec == Init /\ [][Next]_vars

(***************************************************************************)
(* Claims about the generator (Spec).                                      *)
(***************************************************************************)
\* C1: two generation runs on the same document produce identical models,
\* parameters and client text, whatever order the maps are iterated in:
\* when the second run has written its files, they equal the first run's.
C1_Deterministic == (run = 2 /\ pc = "done") => written = previous

\* Whether the response under the status code has a body: a media type
\* with a schema.
hasBody(operation, code) ==
    /\ code \in DOMAIN operation.Responses
    /\ \E media \in DOMAIN operation.Responses[code].Content :
          operation.Responses[code].Content[media].Schema # Nil

\* The positions in the priority list of the statuses that have a body.
statusesWithBody(operation) ==
    {i \in DOMAIN priority : hasBody(operation, priority[i])}

\* The content of the first status of the priority list that has a body.
firstBody(operation) ==
    operation.Responses[priority[Min(statusesWithBody(operation))]].Content

\* C2: determineResponseType returns the response schema of the first of
\* 200, 201, 202, 204 that is present with a body, never that of a later
\* status, and the absent result when no status has a body.
C2_FirstStatusWins ==
    \A i \in DOMAIN methodDefinitions :
        LET m == methodDefinitions[i]
            operation == m.OperationRef
        IN IF statusesWithBody(operation) = {}
           THEN m.ResponseTypeRef = Nil
           ELSE \E media \in DOMAIN firstBody(operation) :
                   /\ firstBody(operation)[media].Schema # Nil
                   /\ m.ResponseTypeRef = firstBody(operation)[media].Schema

\* C3: a response that declares both text/html and application/json for
\* the same status resolves to the HTML path: response type string, taken
\* from the text/html content, and no JSON decoding in the method.
C3_HTMLBeforeJSON ==
    \A i \in DOMAIN methodDefinitions :
        LET m == methodDefinitions[i]
            operation == m.OperationRef
        IN (/\ statusesWithBody(operation) # {}
            /\ S_html \in DOMAIN firstBody(operation)
            /\ S_json \in DOMAIN firstBody(operation))
           => /\ m.ResponseType = S_string
              /\ m.ResponseTypeRef = firstBody(operation)[S_html].Schema
              /\ i \in DOMAIN sdkOut.methods =>
                    \A k \in DOMAIN sdkOut.methods[i] : sdkOut.methods[i][k].op # "json"

\* The schema promoted into the interface of type definition i: the
\* _embedded property of its schema, a reference followed into the
\* document's components.
promotedSchema(i) ==
    LET prop == typeDefinitions[i].SchemaRef.Value.Properties[S_embedded]
    IN IF prop.Ref = <<>> THEN prop.Value
       ELSE doc.Schemas[getRefName(prop.Ref)].Value

hasEmbeddedProperty(i) ==
    /\ typeDefinitions[i].SchemaRef.Value # Nil
    /\ S_embedded \in DOMAIN typeDefinitions[i].SchemaRef.Value.Properties

\* The members of declaration i after those of the schema's own properties.
promotedMembers(i) ==
    LET own == Cardinality(DOMAIN typeDefinitions[i].SchemaRef.Value.Properties) - 1
    IN SubSeq(typesOut[i].members, own + 1, Len(typesOut[i].members))

\* C4: for a named object schema with a property _embedded, the interface
\* has no _embedded member and one top-level member per property of the
\* resolved _embedded schema, named in camelCase, typed by resolveType and
\* optional unless the _embedded schema's own required list names it.
C4_EmbeddedPromotion ==
    \A i \in DOMAIN typesOut :
        hasEmbeddedProperty(i) =>
            /\ typesOut[i].kind = "interface"
            /\ \A k \in DOMAIN typesOut[i].members :
                  typesOut[i].members[k].name \notin {S_embedded, toCamelCase(S_embedded)}
            /\ Len(promotedMembers(i))
                   = Cardinality(DOMAIN promotedSchema(i).Properties)
            /\ \A p \in DOMAIN promotedSchema(i).Properties :
                  \E k \in DOMAIN promotedMembers(i) :
                      /\ promotedMembers(i)[k].name = toCamelCase(p)
                      /\ promotedMembers(i)[k].type
                             = resolveType(promotedSchema(i).Properties[p])
                      /\ promotedMembers(i)[k].optional
                             = (\A r \in DOMAIN promotedSchema(i).Required :
                                    promotedSchema(i).Required[r] # p)

\* A declaration was rendered for a schema whose _embedded schema has at
\* least two properties, one required and one not, reached by reference.
C4_Witness ==
    \E i \in DOMAIN typesOut :
        /\ hasEmbeddedProperty(i)
        /\ typeDefinitions[i].SchemaRef.Value.Properties[S_embedded].Ref # <<>>
        /\ Len(promotedMembers(i)) >= 2
        /\ \E k, l \in DOMAIN promotedMembers(i) :
              promotedMembers(i)[k].optional /\ ~promotedMembers(i)[l].optional

RangeTypes == {S_DateRange, S_NumberRange, S_CurrencyRange}

RangeBounds == {"gte", "lte", "gt", "lt"}

\* The query parameters of the operation that are filters hinted as a
\* range type.
rangeFilters(operation) ==
    {i \in DOMAIN operation.Parameters :
        /\ operation.Parameters[i].In = S_query
        /\ IsFilterName(operation.Parameters[i].Name)
        /\ operation.Parameters[i].SDKType \in RangeTypes}

\* C7: for a filter parameter hinted as DateRange, NumberRange or
\* CurrencyRange the method has, instead of the generic leaf append, one
\* append per bound gte, lte, gt, lt, guarded by that bound, ISO-8601
\* formatted for a DateRange, under the original bracketed wire name.
C7_RangeFilterEmission ==
    \A i \in DOMAIN sdkOut.methods :
        LET operation == methodDefinitions[i].OperationRef
            statements == sdkOut.methods[i]
        IN \A p \in rangeFilters(operation) :
              LET param == operation.Parameters[p]
              IN /\ \A b \in RangeBounds :
                       \E k \in DOMAIN statements :
                           /\ statements[k].op = "append"
                           /\ statements[k].form = "range"
                           /\ statements[k].bound = b
                           /\ statements[k].key = param.Name
                           /\ statements[k].iso = (param.SDKType = S_DateRange)
                 /\ \A k \in DOMAIN statements :
                       (statements[k].op = "append" /\ statements[k].key = param.Name)
                       => statements[k].form # "leaf"

\* Whether the operation's first success response with a body is a JSON
\* response (and nothing else) whose schema is an object.
jsonObjectResponse(operation) ==
    /\ statusesWithBody(operation) # {}
    /\ DOMAIN firstBody(operation) = {S_json}
    /\ TypeIs(firstBody(operation)[S_json].Schema.Value, S_object)

\* C8: an operation whose first matching success response is a JSON
\* response with an object schema gets a method that decodes the body with
\* response.json() and returns toClientType(data), not the bare return.
C8_JSONObjectDecoded ==
    \A i \in DOMAIN sdkOut.methods :
        jsonObjectResponse(methodDefinitions[i].OperationRef) =>
            LET statements == sdkOut.methods[i]
            IN /\ \E k \in DOMAIN statements : statements[k].op = "json"
               /\ \E k \in DOMAIN statements : statements[k].op = "returnToClientType"
               /\ \A k \in DOMAIN statements : statements[k].op # "return"
(***************************************************************************)
(* SpecParams: main() run on documents with two GET operations, varying    *)
(* the operations' names and their sort and include parameters.            *)
(***************************************************************************)
SortEnum == <<EnumString(<<"c","r","e","a","t","e","d","_","a","t">>), EnumString(<<"n","a","m","e">>)>>

IncludeEnum == <<EnumString(<<"l","i","n","e","_","i","t","e","m","s">>), EnumString(<<"o","w","n","e","r">>)>>

\* What an operation may declare as its sort parameter and as its include
\* parameter.
SortChoices ==
    {Parameter(S_sort, S_query, Inline(EnumSchema(SortEnum)), FALSE, <<>>),
     Parameter(S_sort, S_query, Inline(StringSchema), FALSE, <<>>),
     Parameter(S_sort, S_query, Nil, FALSE, <<>>)}

IncludeChoices ==
    {Parameter(S_include, S_query, Inline(EnumSchema(IncludeEnum)), FALSE, <<>>),
     Parameter(S_include, S_query, Inline(StringSchema), FALSE, <<>>),
     Parameter(S_include, S_query, Nil, FALSE, <<>>)}

OptionLists ==
    {<<>>} \cup {<<p>> : p \in SortChoices \cup IncludeChoices}
    \cup (IncludeChoices \X SortChoices)

\* The operationIds of the operation on /items/{item_id}.
ItemOperationIDs == {<<"g","e","t","I","t","e","m">>, <<"g","e","t","C","h","e","c","k","l","i","s","t">>, <<"l","i","s","t","_","i","t","e","m","s">>}

OptionDocs ==
    {Doc(BaseSchemas,
         <<PathItem(P_items,
                    "GET" :> Operation(<<"l","i","s","t","I","t","e","m","s">>, ps1, Nil, ListResponses)),
           PathItem(P_item,
                    "GET" :> Operation(id, <<PathID>> \o ps2, Nil,
                                       200 :> Response(Content(S_json, ItemRef))))>>) :
        ps1 \in OptionLists, ps2 \in OptionLists, id \in ItemOperationIDs}

InitParams ==
    /\ doc \in OptionDocs
    /\ pc = "getTypeDefinitions"
    /\ run = 1
    /\ typeDefinitions = <<>>
    /\ paramDefinitions = <<>>
    /\ methodDefinitions = <<>>
    /\ typesOut = NoText
    /\ sdkOut = NoSDK
    /\ paramsOut = NoText
    /\ written = <<>>
    /\ previous = <<>>
    /\ NamesIdle
    /\ ClientIdle
    /\ ContentIdle
    /\ TypesIdle
    /\ MainIdle

SpecParams == InitParams /\ [][Next]_vars

\* The sort or include parameters of a parameter definition.
optionParams(def, groupName) ==
    SelectSeq(def.Params, LAMBDA p : p.Name = groupName)

\* The name the alias of a group has.
aliasName(def, groupName) == def.Name \o toPascalCase(groupName) \o S_Option

\* The values the alias holds: the enum values of the schema, in the
\* casing of the generated code, or the fixed list of include.
aliasValues(groupName, param) ==
    IF param.Schema # Nil /\ param.Schema.Value.Enum # <<>>
    THEN [i \in DOMAIN param.Schema.Value.Enum |->
             <<"'">> \o toCamelCase(param.Schema.Value.Enum[i].text) \o <<"'">>]
    ELSE IF groupName = S_include
         THEN <<<<"'","p","a","r","e","n","t","'">>, <<"'","p","a","r","e","n","t","s","'">>, <<"'","c","h","i","l","d","r","e","n","'">>, <<"'","a","t","t","r","i","b","u","t","e","s","'">>>>
         ELSE <<>>

aliasDeclaration(name, values) ==
    S_typeKw \o name \o S_equals \o Join(values, S_bar) \o <<";">>

\* The type of the field the interface of definition i has for the group.
optionField(i, groupName) ==
    LET groups == paramsOut.interfaces[i].groups
        at == CHOOSE k \in DOMAIN groups : groups[k].name = groupName
    IN groups[at].type

\* The field is an array of the alias and the alias is declared with the
\* values.
aliasMinted(i, groupName) ==
    LET def == paramDefinitions[i]
        name == aliasName(def, groupName)
    IN /\ optionField(i, groupName) = [kind |-> "named", text |-> name \o S_brackets]
       /\ aliasDeclaration(name, aliasValues(groupName, optionParams(def, groupName)[1]))
              \in Range(paramsOut.additionalTypes)

\* The aliases declared for a definition.
aliasesOf(i) ==
    {aliasName(paramDefinitions[i], g) : g \in {S_sort, S_include}}

\* The groups an alias is minted for: include, and sort with an enum.
minted ==
    {ig \in (DOMAIN paramDefinitions) \X {S_sort, S_include} :
        LET ps == optionParams(paramDefinitions[ig[1]], ig[2])
        IN IF ps = <<>> THEN FALSE ELSE aliasValues(ig[2], ps[1]) # <<>>}

interfaceOf(operation) ==
    paramsOut.interfaces[CHOOSE i \in DOMAIN paramDefinitions :
                             paramDefinitions[i].Operation = operation]

beginsWithList(name) == HasPrefix(name, S_list)

\* C20: the method definition of a GET operation has the arguments
\* id: string and the optional params, id being left out exactly when the
\* operation name begins with "list", and the parameter interface has the
\* totalCount option exactly when the name begins with "list".
C20_ListPrefix ==
    paramsOut # NoText =>
        \A i \in DOMAIN methodDefinitions :
            LET m == methodDefinitions[i]
                params == Argument(S_params, toPascalCase(m.Name) \o S_Params, TRUE)
            IN m.HTTPMethod = "GET" =>
                  /\ m.Arguments = IF beginsWithList(m.Name)
                                   THEN <<params>>
                                   ELSE <<Argument(S_id, S_string, FALSE), params>>
                  /\ interfaceOf(m.OperationRef).totalCount = beginsWithList(m.Name)

(***************************************************************************)
(* SpecMethods: main() run on documents with one operation, varying its    *)
(* path, verb, operationId, request body, query parameters and response.   *)
(***************************************************************************)
P_copies == <<"/","i","t","e","m","s","/","{","i","t","e","m","_","i","d","}","/","c","o","p","i","e","s","/","{","i","t","e","m","_","i","d","}">>

P_notes == <<"/","i","t","e","m","s","/","{","i","t","e","m","_","i","d","}","/","n","o","t","e","s","/","{","n","o","t","e","_","i","d","}">>

P_links == <<"/","i","t","e","m","s","/","{","i","d","}","/","l","i","n","k","s","/","{","i","d","}">>

PathChoices == {P_items, P_item, P_copies, P_notes, P_links}

\* The operationIds of the operation; the empty one is an operation
\* without operationId.
OperationIDs == {<<"l","i","s","t","I","t","e","m","s">>, <<"g","e","t","I","t","e","m">>, <<"s","a","v","e","I","t","e","m">>, <<>>}

\* The request bodies of a POST, PUT or PATCH operation.
RequestBodies ==
    {Nil,
     RequestBody(TRUE, Content(S_json, InlineBody)),
     RequestBody(TRUE, Content(S_multipart, UploadBody)),
     RequestBody(TRUE, Content(S_json, InlineBody) @@ Content(S_multipart, UploadBody))}

VerbBodies ==
    {<<v, Nil>> : v \in Verbs} \cup (BodyVerbs \X RequestBodies)

\* The query parameters of the operation.
QueryLists ==
    {<<>>,
     <<Parameter(<<"q">>, S_query, Inline(StringSchema), FALSE, <<>>)>>,
     <<Parameter(<<"f","i","l","t","e","r","[","n","a","m","e","]">>, S_query, Inline(StringSchema), FALSE, <<>>),
       Parameter(<<"l","o","c","a","l","e">>, S_query, Inline(StringSchema), FALSE, <<>>)>>}

\* The responses of the operation: a named schema, an array of it, none.
MethodResponses ==
    {200 :> Response(Content(S_json, ItemRef)),
     ListResponses,
     204 :> Response(EmptyMap)}

MethodDocs ==
    {Doc(BaseSchemas,
         <<PathItem(path, vb[1] :> Operation(id, ps, vb[2], responses))>>) :
        path \in PathChoices, vb \in VerbBodies, id \in OperationIDs,
        ps \in QueryLists, responses \in MethodResponses}

InitMethods ==
    /\ doc \in MethodDocs
    /\ pc = "getTypeDefinitions"
    /\ run = 1
    /\ typeDefinitions = <<>>
    /\ paramDefinitions = <<>>
    /\ methodDefinitions = <<>>
    /\ typesOut = NoText
    /\ sdkOut = NoSDK
    /\ paramsOut = NoText
    /\ written = <<>>
    /\ previous = <<>>
    /\ NamesIdle
    /\ ClientIdle
    /\ ContentIdle
    /\ TypesIdle
    /\ MainIdle

SpecMethods == InitMethods /\ [][Next]_vars

\* The statements of the method emitted for the method definition i.
methodText(i) == sdkOut.methods[i]

\* The statement of the method that declares the URL.
urlOf(text) == text[CHOOSE k \in DOMAIN text : text[k].op = "url"]

\* The path read once from left to right, every {param} replaced by one
\* ${camelCase(param)} and every other character kept.
RECURSIVE interpolated(_)
interpolated(path) ==
    IF path = <<>> THEN <<>>
    ELSE LET closes == {e \in 3..Len(path) : path[e] = "}"}
         IN IF Head(path) = "{" /\ closes # {}
            THEN LET e == Min(closes)
                 IN <<"$", "{">> \o toCamelCase(SubSeq(path, 2, e - 1)) \o <<"}">>
                    \o interpolated(SubSeq(path, e + 1, Len(path)))
            ELSE <<Head(path)>> \o interpolated(Tail(path))

\* C21: the URL of every emitted method is the path with each {param}
\* occurrence replaced by exactly one ${camelCase(param)} and the rest
\* unchanged, also when a placeholder occurs more than once.
C21_PathInterpolation ==
    \A i \in DOMAIN sdkOut.methods :
        urlOf(methodText(i)).template = interpolated(methodDefinitions[i].Path)

\* The operations of the document.
operationsOf(d) ==
    {d.Paths[i].Item[v] : i \in DOMAIN d.Paths, v \in Verbs} \ {Nil}

hasUnnamedOperation(d) == \E op \in operationsOf(d) : op.OperationID = <<>>

\* C24: an operation without operationId is fatal: no method definition
\* has an empty name, and for a document with such an operation the run
\* makes no method definitions and writes nothing.
C24_UnnamedOperationFatal ==
    /\ \A i \in DOMAIN methodDefinitions : methodDefinitions[i].Name # <<>>
    /\ hasUnnamedOperation(doc) =>
          methodDefinitions = <<>> /\ sdkOut = NoSDK /\ written = <<>>

\* The statements of a method that read or assign the options variable.
usesOptions(st) ==
    st.op \in {"totalCount", "setHttpRequestHeaders", "requestInterceptors", "fetch",
               "responseInterceptors"}

declarationsOfOptions(text) == {k \in DOMAIN text : text[k].op = "options"}

\* C27: every emitted method declares options exactly once, and before
\* any statement that uses it.
C27_OptionsDeclaredOnce ==
    \A i \in DOMAIN sdkOut.methods :
        LET text == methodText(i)
        IN /\ Cardinality(declarationsOfOptions(text)) = 1
           /\ \A k \in DOMAIN text :
                 usesOptions(text[k]) => \E j \in declarationsOfOptions(text) : j < k

\* The type names a method definition mentions: its argument types and
\* its response type.
mentionedTypes(m) ==
    {m.Arguments[a].Type.Name : a \in DOMAIN m.Arguments} \cup {m.ResponseType}

elementType(tsType) == TrimSuffix(tsType, S_brackets)

\* The names the client text takes from the models and parameters files.
namesTaken ==
    {n \in {elementType(t) : t \in UNION {mentionedTypes(methodDefinitions[i]) :
                                              i \in DOMAIN methodDefinitions}} :
        n # <<>> /\ ~isPrimitiveType(n)}

IsSortedStrings(s) == \A i, j \in DOMAIN s : i < j => ~LessStr(s[j], s[i])

\* C28: once the imports are written, every name the client text takes
\* from the models and parameters files is imported, APIError is imported
\* when there is a method, and the import lists are sorted and hold only
\* names that are taken.
C28_ImportsComplete ==
    pc \notin {"getTypeDefinitions", "getParamDefinitions", "generateSDK"} =>
        /\ namesTaken \subseteq Range(sdkOut.importTypes) \cup Range(sdkOut.importParams)
        /\ methodDefinitions # <<>> => sdkOut.importAPIError
        /\ IsSortedStrings(sdkOut.importTypes)
        /\ IsSortedStrings(sdkOut.importParams)
        /\ Range(sdkOut.importTypes) \cup Range(sdkOut.importParams) \subseteq namesTaken

\* The query parameters of an operation that are neither sort nor include
\* and begin with neither filter[ nor page[.
otherQueryParams(operation) ==
    {p \in Range(operation.Parameters) :
        /\ p.In = S_query
        /\ p.Name \notin {S_sort, S_include}
        /\ ~HasPrefix(p.Name, S_filterOpen)
        /\ ~HasPrefix(p.Name, S_pageOpen)}

\* The fields of a parameter interface.
fieldsOf(interface) == {interface.groups[g].name : g \in DOMAIN interface.groups}

\* The append statements of a method text that send the parameter: under
\* its name as the key, or reading its field of params as the value.
appendsOf(text, param) ==
    {k \in DOMAIN text :
        /\ text[k].op = "append"
        /\ \/ text[k].key = param.Name
           \/ Head(text[k].value) = toCamelCase(groupOf(param))}

\* C29: a query parameter of a GET operation that is neither sort nor
\* include and begins with neither filter[ nor page[ has a field in the
\* parameter interface of the operation and no append in the method.
C29_OtherParamsNotSent ==
    paramsOut # NoText =>
        \A i \in DOMAIN sdkOut.methods :
            LET m == methodDefinitions[i]
            IN m.HTTPMethod = "GET" =>
                   \A p \in otherQueryParams(m.OperationRef) :
                       /\ toCamelCase(groupOf(p)) \in fieldsOf(interfaceOf(m.OperationRef))
                       /\ appendsOf(methodText(i), p) = {}

\* A GET method with params whose operation has such a parameter next to
\* a filter, and whose text builds a query string that appends the filter.
C29_Witness ==
    /\ paramsOut # NoText
    /\ \E i \in DOMAIN sdkOut.methods :
           /\ methodDefinitions[i].HTTPMethod = "GET"
           /\ HasParam(methodDefinitions[i].Arguments, S_params)
           /\ \E p \in otherQueryParams(methodDefinitions[i].OperationRef) :
                  p.Name = <<"l","o","c","a","l","e">>
           /\ \E k \in DOMAIN methodText(i) : methodText(i)[k].op = "append"

\* The statements of a method text that read the params argument: the
\* params.totalCount header block and the query string block.
refersToParams(st) == st.op \in {"totalCount", "queryString", "ifParams", "append"}

\* C30: a method text refers to params only when the method definition
\* has an argument named params.
C30_ParamsDeclared ==
    \A i \in DOMAIN sdkOut.methods :
        (\E k \in DOMAIN methodText(i) : refersToParams(methodText(i)[k]))
            => HasParam(methodDefinitions[i].Arguments, S_params)

(***************************************************************************)
(* Claims about the emitted interfaces and the run as a whole (Spec).      *)
(***************************************************************************)
\* The member names of an interface whose own properties, and then its
\* promoted properties, are in lexical order of their property names.
membersInOrder(schemaRef, d) ==
    LET own == SelectSeq(SortStrings(DOMAIN schemaRef.Value.Properties),
                         LAMBDA p : p # S_embedded)
        promoted == SortStrings(embeddedPropNames(schemaRef, d))
    IN SeqMap(toCamelCase, own) \o SeqMap(toCamelCase, promoted)

\* C22: the members of every emitted interface are in lexical order of
\* their property names, the promoted members of _embedded included,
\* whatever order the property maps are iterated in.
C22_MembersSorted ==
    \A i \in DOMAIN typesOut :
        typesOut[i].kind = "interface" =>
            SeqMap(LAMBDA m : m.name, typesOut[i].members)
                = membersInOrder(typeDefinitions[i].SchemaRef, doc)


(***************************************************************************)
(* SpecTypes: the type resolvers applied to one schema node.               *)
(***************************************************************************)
MaxTypes == 2

\* The names a declared type list is made of: the mapped ones, one written
\* in upper case and one no mapping knows.
TypeNames ==
    {S_string, S_integer, S_boolean, S_object, S_array, S_null, <<"S","t","r","i","n","g">>, <<"f","i","l","e">>}

Formats == {<<>>, S_binary, S_dateTime}

ItemChoices == {Nil, Inline(StringSchema), ItemRef}

\* The schema nodes: a nil reference, a reference without a value, a $ref,
\* and inline schemas with every short type list, format and item schema.
TypedNodes ==
    {Inline(Schema(types, format, <<>>, FALSE, <<>>, EmptyMap, items)) :
        types \in SeqsUpTo(TypeNames, MaxTypes), format \in Formats,
        items \in ItemChoices}

MaxEnum == 2

EnumValues ==
    {EnumString(<<"a","c","t","i","v","e">>), EnumString(<<"i","n","_","p","r","o","g","r","e","s","s">>), EnumString(<<"S","e","n","t">>),
     EnumNumber(<<"3">>), EnumBool(<<"t","r","u","e">>)}

\* Schemas with an enum of up to MaxEnum values.
EnumNodes ==
    {Inline(EnumSchema(enum)) : enum \in SeqsUpTo(EnumValues, MaxEnum) \ {<<>>}}

\* Object schemas with the properties id and note, each nullable or not,
\* any of them required, the schema itself nullable or not.
ObjectNodes ==
    {Inline(Schema(<<S_object>>, <<>>, <<>>, nullable, SortStrings(required),
                   props, Nil)) :
        nullable \in BOOLEAN, required \in SUBSET {<<"i","d">>, <<"n","o","t","e">>},
        props \in [{<<"i","d">>, <<"n","o","t","e">>} ->
                     {Inline(StringSchema), Inline(NullableStringSchema)}]}

\* Scalar schemas that declare themselves nullable.
NullableNodes ==
    {Inline(NullableStringSchema),
     Inline(Schema(<<S_integer>>, <<>>, <<>>, TRUE, <<>>, EmptyMap, Nil)),
     Inline(Schema(<<S_string>>, <<>>, <<EnumString(<<"a","c","t","i","v","e">>)>>, TRUE, <<>>,
                   EmptyMap, Nil))}

(***************************************************************************)
(* A schema graph with cycles: Node refers to itself (parent, children)    *)
(* and, by its _embedded property, to Links; Links refers back to Node and *)
(* to itself.  The loader makes the Value of every reference the schema    *)
(* referred to, so the graph is its own unfolding without end; Tree(n, k)  *)
(* is the unfolding cut after k references, Beyond standing for whatever   *)
(* lies behind the cut.                                                    *)
(***************************************************************************)
MaxDepth == 4

\* A document without component schemas.
NoComponents == [Schemas |-> EmptyMap]

N_Node == <<"N","o","d","e">>
N_Links == <<"L","i","n","k","s">>

GraphNames == {N_Node, N_Links}

\* Unlike every schema of the graph: a nullable boolean with one property.
Beyond ==
    Schema(<<S_boolean>>, <<>>, <<>>, TRUE, <<<<"b","e","y","o","n","d">>>>,
           <<"b","e","y","o","n","d">> :> Inline(StringSchema), Nil)

RECURSIVE Tree(_, _)
Tree(name, k) ==
    IF k = 0 THEN Beyond
    ELSE IF name = N_Node
    THEN ObjectSchema((<<"p","a","r","e","n","t">> :> RefTo(N_Node, Tree(N_Node, k - 1)))
                      @@ (<<"c","h","i","l","d","r","e","n">>
                            :> Inline(ArraySchema(RefTo(N_Node, Tree(N_Node, k - 1)))))
                      @@ (S_embedded :> RefTo(N_Links, Tree(N_Links, k - 1))),
                      <<<<"p","a","r","e","n","t">>>>)
    ELSE ObjectSchema((<<"o","w","n","e","r">> :> RefTo(N_Node, Tree(N_Node, k - 1)))
                      @@ (<<"n","e","x","t">> :> RefTo(N_Links, Tree(N_Links, k - 1))),
                      <<<<"o","w","n","e","r">>>>)

\* components.schemas of the graph, unfolded k references deep.
Components(k) ==
    [Schemas |-> (N_Node :> Inline(Tree(N_Node, k)))
                 @@ (N_Links :> Inline(Tree(N_Links, k)))]

\* How a schema of the graph reaches a resolver: as the component itself,
\* as a reference to it, as an inline array of references to it.
ShapeKinds == {"schema", "ref", "array"}

Shape(kind, name, k) ==
    CASE kind = "schema" -> Inline(Tree(name, k))
      [] kind = "ref" -> RefTo(name, Tree(name, k - 1))
      [] kind = "array" -> Inline(ArraySchema(RefTo(name, Tree(name, k - 1))))

GraphNodes ==
    {Shape(kind, name, k) : kind \in ShapeKinds, name \in GraphNames, k \in 1..MaxDepth}

\* The document a node is a part of: the graph unfolded as far as the
\* node's own references are, no components for the other nodes.
componentsOf(node) ==
    IF \E name \in GraphNames, k \in 1..MaxDepth : node = Shape("schema", name, k)
    THEN LET k == CHOOSE k \in 1..MaxDepth :
                     \E name \in GraphNames : node = Shape("schema", name, k)
         IN Components(k - 1)
    ELSE NoComponents

SchemaNodes ==
    {Nil, [Ref |-> <<>>, Value |-> Nil], ItemRef}
    \cup TypedNodes \cup EnumNodes \cup ObjectNodes \cup NullableNodes
    \cup GraphNodes

\* The SDK-type hints a parameter may carry; <<>> is no hint.
Hints == {<<>>, S_DateRange, S_NumberRange, S_CurrencyRange}

BracketedNames == {<<"f","i","l","t","e","r","[","c","r","e","a","t","e","d","_","a","t","]">>, <<"p","a","g","e","[","s","i","z","e","]">>}

N_ListItemsParams == <<"L","i","s","t","I","t","e","m","s","P","a","r","a","m","s">>

N_Status == <<"s","t","a","t","u","s">>

InitTypes ==
    /\ schemaNode \in SchemaNodes
    /\ typeResult = NoResult
    /\ NamesIdle
    /\ GenIdle
    /\ ClientIdle
    /\ ContentIdle
    /\ MainIdle

\* resolveType is applied to the node (parameter and model field typing).
ResolveType ==
    /\ typeResult = NoResult
    /\ typeResult' = [op |-> "resolveType", type |-> resolveType(schemaNode)]
    /\ UNCHANGED <<mainVars, schemaNode, nameVars, genVars, clientVars, contentVars>>

\* resolveInlineType is applied to the node (response typing); the caller
\* passes inline schemas that have a value.
ResolveInlineType ==
    /\ typeResult = NoResult
    /\ schemaNode # Nil
    /\ schemaNode.Value # Nil
    /\ schemaNode.Ref = <<>>
    /\ typeResult' = [op |-> "resolveInlineType", type |-> resolveInlineType(schemaNode)]
    /\ UNCHANGED <<mainVars, schemaNode, nameVars, genVars, clientVars, contentVars>>

\* resolveType of generate_params.go is applied to the node.
ResolveTypeUnion ==
    /\ typeResult = NoResult
    /\ typeResult' = [op |-> "resolveTypeUnion", type |-> resolveTypeUnion(schemaNode)]
    /\ UNCHANGED <<mainVars, schemaNode, nameVars, genVars, clientVars, contentVars>>

\* generateTypeScript renders the node as the component schema "status",
\* the range over the _embedded properties visiting them in any order.
GenerateTypeScript ==
    /\ typeResult = NoResult
    /\ schemaNode # Nil
    /\ schemaNode.Ref = <<>>
    /\ \E embeddedOrder \in Perms(embeddedPropNames(schemaNode, componentsOf(schemaNode))) :
          typeResult' = [op |-> "generateTypeScript",
                         declaration |-> generateTypeScript(N_Status, schemaNode,
                                                            componentsOf(schemaNode),
                                                            embeddedOrder)]
    /\ UNCHANGED <<mainVars, schemaNode, nameVars, genVars, clientVars, contentVars>>

\* generateTypeScriptInterface renders the parameter interface of an
\* operation whose one query parameter has the node as its schema.
GenerateTypeScriptInterface ==
    /\ typeResult = NoResult
    /\ IF schemaNode = Nil THEN TRUE ELSE schemaNode.Value # Nil
    /\ \E name \in BracketedNames, hint \in Hints, required \in BOOLEAN :
          LET param == QueryParameter(name, schemaNode, required, hint)
          IN typeResult' =
                [op |-> "generateTypeScriptInterface", param |-> param,
                 made |-> generateTypeScriptInterface(
                              N_ListItemsParams, <<param>>,
                              [OperationID |-> <<"l","i","s","t","I","t","e","m","s">>])]
    /\ UNCHANGED <<mainVars, schemaNode, nameVars, genVars, clientVars, contentVars>>

NextTypes ==
    \/ GenerateTypeScriptInterface
    \/ ResolveType
    \/ ResolveTypeUnion
    \/ ResolveInlineType
    \/ GenerateTypeScript

SpecTypes == InitTypes /\ [][NextTypes]_vars

\* The unspecified and unsupported shapes: no schema, no declared type, or
\* declared types none of which has a mapping.
unsupportedShape(node) ==
    \/ node = Nil
    \/ node.Value = Nil
    \/ /\ node.Ref = <<>>
       /\ Len(node.Value.Enum) = 0
       /\ \A i \in DOMAIN node.Value.Type :
             ToLower(node.Value.Type[i]) \notin DOMAIN typeMapping

\* C13: resolveType is total: for every schema node it returns a non-empty
\* type expression, and every unspecified or unsupported shape resolves to
\* any.
C13_ResolveTypeTotal ==
    typeResult.op = "resolveType" =>
        /\ Len(typeResult.type) > 0
        /\ unsupportedShape(schemaNode) => typeResult.type = S_any

\* The union the declared type list stands for: the mapped type of every
\* listed type in order of first occurrence, array contributing the item
\* type with the array suffix.
listedType(node, t) ==
    IF ToLower(t) = S_array THEN resolveType(node.Value.Items) \o S_brackets
    ELSE IF ToLower(t) \in DOMAIN typeMapping THEN typeMapping[ToLower(t)]
    ELSE S_any

RECURSIVE firstOccurrences(_)
firstOccurrences(s) ==
    IF s = <<>> THEN <<>>
    ELSE LET rest == firstOccurrences(SubSeq(s, 1, Len(s) - 1))
         IN IF \E i \in DOMAIN rest : rest[i] = s[Len(s)] THEN rest
            ELSE Append(rest, s[Len(s)])

unionOfListed(node) ==
    Join(firstOccurrences([i \in DOMAIN node.Value.Type |->
                              listedType(node, node.Value.Type[i])]), S_bar)

\* A node that declares a list of types and nothing that overrides it.
declaresTypes(node) ==
    /\ node # Nil
    /\ node.Value # Nil
    /\ node.Ref = <<>>
    /\ Len(node.Value.Enum) = 0
    /\ Len(node.Value.Type) > 0
    /\ node.Value.Format = <<>>

\* C14: for a schema whose declared type is a list of types, resolveType
\* returns the union of the mapped type of every listed type, in order of
\* first occurrence with duplicates removed, array contributing the
\* resolved item type with the array suffix; [string, null] resolves to
\* string | null.
C14_UnionOfListedTypes ==
    (typeResult.op \in {"resolveType", "resolveTypeUnion"} /\ declaresTypes(schemaNode))
        => typeResult.type = unionOfListed(schemaNode)

\* The union of the literals of an enum, strings between the quote marks q.
literalsOf(enum, q) ==
    Join([i \in DOMAIN enum |->
             IF enum[i].kind = "string" THEN <<q>> \o enum[i].text \o <<q>>
             ELSE enum[i].text], S_bar)

hasEnum(node) == node # Nil /\ node.Value # Nil /\ node.Ref = <<>>
                 /\ Len(node.Value.Enum) > 0

\* C15: every enumerated value is rendered as a literal of the union with
\* its value unchanged, a string as the quoted string itself and a number
\* or boolean verbatim, both in the exported alias of a named schema
\* (generateTypeScript) and in the inline type expression (resolveType).
C15_EnumLiterals ==
    hasEnum(schemaNode) =>
        /\ typeResult.op = "generateTypeScript" =>
              /\ typeResult.declaration.kind = "alias"
              /\ typeResult.declaration.type
                    \in {literalsOf(schemaNode.Value.Enum, "'"),
                         literalsOf(schemaNode.Value.Enum, "\"")}
        /\ typeResult.op = "resolveType" =>
              typeResult.type \in {literalsOf(schemaNode.Value.Enum, "'"),
                                   literalsOf(schemaNode.Value.Enum, "\"")}

\* C16: in the interface rendered from an object schema each property is
\* optional unless the schema's required list names it, and each property,
\* required or optional, carries the | null suffix exactly when the schema
\* itself declares nullable, whatever the property's own nullable flag.
C16_OwnerNullable ==
    (/\ typeResult.op = "generateTypeScript"
     /\ schemaNode.Value # Nil
     /\ DOMAIN schemaNode.Value.Properties # {})
    => /\ typeResult.declaration.kind = "interface"
       /\ Len(typeResult.declaration.members)
             = Cardinality(DOMAIN schemaNode.Value.Properties)
       /\ \A propName \in DOMAIN schemaNode.Value.Properties :
             \E k \in DOMAIN typeResult.declaration.members :
                LET member == typeResult.declaration.members[k]
                IN /\ member.name = toCamelCase(propName)
                   /\ member.optional = ~contains(schemaNode.Value.Required, propName)
                   /\ member.orNull = schemaNode.Value.Nullable

\* An inline string schema of format date-time.
isDateTime(node) ==
    /\ node # Nil
    /\ node.Value # Nil
    /\ node.Ref = <<>>
    /\ node.Value.Type = <<S_string>>
    /\ node.Value.Format = S_dateTime
    /\ Len(node.Value.Enum) = 0

\* C17: the same inline string schema of format date-time resolves to Date
\* in response typing (resolveInlineType) and to string in parameter and
\* model field typing (resolveType).
C17_DateTimeBySite ==
    isDateTime(schemaNode) =>
        /\ typeResult.op = "resolveInlineType" => typeResult.type = S_Date
        /\ typeResult.op = "resolveType" => typeResult.type = S_string

\* The field generated for the one parameter of the interface.
fieldOf(made) == made.interface.groups[1].type.members[1]

\* C18: for every bracketed query parameter that carries a non-empty
\* SDK-type hint H, the field generated for it in the parameter interface
\* has type exactly H, whatever the parameter's schema says; the
\* schema-derived type is used only when the hint is absent.
C18_HintVerbatim ==
    typeResult.op = "generateTypeScriptInterface" =>
        IF typeResult.param.SDKType # <<>>
        THEN fieldOf(typeResult.made).type = typeResult.param.SDKType
        ELSE HasPrefix(fieldOf(typeResult.made).type,
                       resolveType(typeResult.param.Schema))

(***************************************************************************)
(* Claims about the resolvers on the cyclic graph (SpecTypes).             *)
(***************************************************************************)
\* The interface of a schema of the graph, every reference typed by its
\* name: the own members in lexical order, then for Node the members
\* promoted from Links in the order promoted.
graphInterface(name, promoted) ==
    LET own == IF name = N_Node
               THEN <<Member(<<"c","h","i","l","d","r","e","n">>, N_Node \o S_brackets, TRUE, FALSE),
                      Member(<<"p","a","r","e","n","t">>, N_Node, FALSE, FALSE)>>
               ELSE <<Member(<<"n","e","x","t">>, N_Links, TRUE, FALSE),
                      Member(<<"o","w","n","e","r">>, N_Node, FALSE, FALSE)>>
        of(p) == IF p = <<"o","w","n","e","r">> THEN Member(<<"o","w","n","e","r">>, N_Node, FALSE, FALSE)
                 ELSE Member(<<"n","e","x","t">>, N_Links, TRUE, FALSE)
    IN [kind |-> "interface", name |-> toPascalCase(N_Status),
        members |-> own \o (IF name = N_Node THEN SeqMap(of, promoted) ELSE <<>>)]

\* The declaration of a schema of the graph: an interface, and for an
\* array of references an alias.
graphDeclaration(kind, name, promoted) ==
    IF kind = "array"
    THEN [kind |-> "alias", name |-> toPascalCase(N_Status),
          type |-> name \o S_brackets]
    ELSE graphInterface(name, promoted)

\* What resolveType makes of a schema of the graph in each shape.
graphType(kind, name) ==
    CASE kind = "schema" -> S_any
      [] kind = "ref" -> name
      [] kind = "array" -> name \o S_brackets

Clean(path) ==
    LET elems == SelectSeq(Split(path, "/"), LAMBDA e : e # <<>> /\ e # <<".">>)
        rooted == path # <<>> /\ Head(path) = "/"
    IN IF elems = <<>> THEN (IF rooted THEN <<"/">> ELSE <<".">>)
       ELSE (IF rooted THEN <<"/">> ELSE <<>>) \o Join(elems, <<"/">>)

\* filepath.Join: the non-empty elements joined by "/" and cleaned.
JoinPath(elems) ==
    LET present == SelectSeq(elems, LAMBDA e : e # <<>>)
    IN IF present = <<>> THEN <<>> ELSE Clean(Join(present, <<"/">>))

S_sdkFile == <<"s","d","k",".","t","s">>
S_typesFile == <<"t","y","p","e","s",".","t","s">>
S_paramsFile == <<"p","a","r","a","m","s",".","t","s">>

\* Data the loader returns an error for.
Malformed == [malformed |-> TRUE]

\* A document whose Page schema has an _embedded property that is a
\* reference to the schema Embedded, and the same document without that
\* schema among its components (the reference leads to another file).
EmbeddedDoc ==
    Doc((N_Item :> Inline(ItemSchema)) @@ (N_Embedded :> Inline(TwoEmbedded))
        @@ (N_Page :> Inline(PageSchema(RefTo(N_Embedded, TwoEmbedded)))),
        <<PathItem(P_item, "GET" :> GetItem)>>)

DanglingDoc ==
    Doc((N_Item :> Inline(ItemSchema))
        @@ (N_Page :> Inline(PageSchema(RefTo(N_Embedded, TwoEmbedded)))),
        <<PathItem(P_item, "GET" :> GetItem)>>)

PlainDoc == Doc(BaseSchemas, <<PathItem(P_item, "GET" :> GetItem)>>)

InputData == {PlainDoc, EmbeddedDoc, DanglingDoc, Malformed}

DocPaths == {<<"-">>, <<"o","p","e","n","a","p","i",".","y","a","m","l">>}

OutputDirs == {<<".","/","g","o","c","a","r","t","-","s","d","k","-","t","s">>, <<"o","u","t","/">>, <<".","/","s","r","c">>}

Invocations ==
    [docPath : DocPaths, outputDir : OutputDirs, readable : BOOLEAN, data : InputData]

InitMain ==
    /\ invocation \in Invocations
    /\ files = EmptyMap
    /\ doc = <<>>
    /\ pc = "readDocument"
    /\ run = 1
    /\ typeDefinitions = <<>>
    /\ paramDefinitions = <<>>
    /\ methodDefinitions = <<>>
    /\ typesOut = NoText
    /\ sdkOut = NoSDK
    /\ paramsOut = NoText
    /\ written = <<>>
    /\ previous = <<>>
    /\ NamesIdle
    /\ ClientIdle
    /\ ContentIdle
    /\ TypesIdle

\* io.ReadAll(os.Stdin) or os.ReadFile(docPath).
ReadDocument ==
    /\ pc = "readDocument"
    /\ pc' = IF invocation.readable THEN "loadDocument" ELSE "fatal"
    /\ UNCHANGED <<mainVars, typeVars, doc, run, typeDefinitions, paramDefinitions,
                   methodDefinitions, typesOut, sdkOut, paramsOut, written, previous,
                   nameVars, clientVars, contentVars>>

\* loader.LoadFromData
LoadDocument ==
    /\ pc = "loadDocument"
    /\ IF invocation.data = Malformed
       THEN pc' = "fatal" /\ doc' = doc
       ELSE pc' = "getTypeDefinitions" /\ doc' = invocation.data
    /\ UNCHANGED <<mainVars, typeVars, run, typeDefinitions, paramDefinitions,
                   methodDefinitions, typesOut, sdkOut, paramsOut, written, previous,
                   nameVars, clientVars, contentVars>>

\* The directory main writes into.
srcDir == JoinPath(<<invocation.outputDir>>)

\* os.MkdirAll(srcDir), which may fail.
MkdirAll ==
    /\ pc = "writeFiles"
    /\ \E ok \in BOOLEAN : pc' = IF ok THEN "writeSdk" ELSE "fatal"
    /\ UNCHANGED <<mainVars, typeVars, doc, run, typeDefinitions, paramDefinitions,
                   methodDefinitions, typesOut, sdkOut, paramsOut, written, previous,
                   nameVars, clientVars, contentVars>>

\* The three calls of writeFile in their order: position, file, content,
\* next position.
Writes ==
    <<[at |-> "writeSdk", name |-> S_sdkFile, to |-> "writeTypes"],
      [at |-> "writeTypes", name |-> S_typesFile, to |-> "writeParams"],
      [at |-> "writeParams", name |-> S_paramsFile, to |-> "done"]>>

contentOf(name) ==
    IF name = S_sdkFile THEN sdkOut
    ELSE IF name = S_typesFile THEN typesOut ELSE paramsOut

\* writeFile: os.WriteFile, fatal when it fails.
WriteFile ==
    /\ \E w \in Range(Writes), ok \in BOOLEAN :
          /\ pc = w.at
          /\ IF ok
             THEN /\ files' = (JoinPath(<<srcDir, w.name>>) :> contentOf(w.name)) @@ files
                  /\ pc' = w.to
             ELSE /\ files' = files
                  /\ pc' = "fatal"
    /\ UNCHANGED <<invocation, typeVars, doc, run, typeDefinitions, paramDefinitions,
                   methodDefinitions, typesOut, sdkOut, paramsOut, written, previous,
                   nameVars, clientVars, contentVars>>

NextMain ==
    \/ ReadDocument
    \/ LoadDocument
    \/ GetTypeDefinitions
    \/ GetParamDefinitions
    \/ GenerateSDK
    \/ GenerateMethod
    \/ GenerateTypes
    \/ GenerateParams
    \/ MkdirAll
    \/ WriteFile

SpecMain == InitMain /\ [][NextMain]_vars

\* Whether a component schema of the input has an _embedded property that
\* is a reference to no component schema.
danglingEmbedded(d) ==
    IF d = Malformed THEN FALSE
    ELSE \E name \in DOMAIN d.Schemas :
            LET properties == d.Schemas[name].Value.Properties
            IN IF S_embedded \in DOMAIN properties
               THEN ~resolveSchemaRef(properties[S_embedded], d).found
               ELSE FALSE

\* C23: when the _embedded property of a schema is a reference that is not
\* found among the named schemas, the run is aborted: it does not reach
\* its end and no file is written.
C23_UnresolvedEmbeddedFatal ==
    danglingEmbedded(invocation.data) => (files = EmptyMap /\ pc # "done")

GeneratedFiles == {S_sdkFile, S_typesFile, S_paramsFile}

\* C25: run with -doc <file> -o <dir>, the command that reaches its end
\* has written sdk.ts, types.ts and params.ts into <dir>/src, and a file
\* is written only if the document was read and loaded.
C25_FilesUnderSrc ==
    /\ files # EmptyMap => (invocation.readable /\ invocation.data # Malformed)
    /\ pc = "done" =>
          DOMAIN files = {JoinPath(<<invocation.outputDir, <<"s","r","c">>, name>>) :
                             name \in GeneratedFiles}


(***************************************************************************)
(* SpecContent: the content-type dispatch of the response typing.  The     *)
(* generator that has isBinaryContentType is described by the              *)
(* specification only: binary content types are application/pdf,          *)
(* image/*, video/*, audio/* and text/csv; they are looked for before the  *)
(* JSON handler, text/html is checked ahead of JSON, and no matching       *)
(* content type means no body.                                             *)
(***************************************************************************)
MaxMediaTypes == 2

S_image == <<"i","m","a","g","e","/">>
S_video == <<"v","i","d","e","o","/">>
S_audio == <<"a","u","d","i","o","/">>
S_csv == <<"t","e","x","t","/","c","s","v">>
S_plain == <<"t","e","x","t","/","p","l","a","i","n">>
S_jpeg == <<"i","m","a","g","e","/","j","p","e","g">>
S_mp4 == <<"v","i","d","e","o","/","m","p","4">>
S_mpeg == <<"a","u","d","i","o","/","m","p","e","g">>

\* isBinaryContentType with text/csv left to the text types.
isBinaryContentTypeTextIsText(contentType) ==
    \/ contentType = S_pdf
    \/ HasPrefix(contentType, S_image)
    \/ HasPrefix(contentType, S_video)
    \/ HasPrefix(contentType, S_audio)

isBinaryContentType(contentType) ==
    \/ contentType \in {S_pdf, S_csv}
    \/ HasPrefix(contentType, S_image)
    \/ HasPrefix(contentType, S_video)
    \/ HasPrefix(contentType, S_audio)

\* The handler the dispatch picks for the content types of a response.
responseHandler(content) ==
    IF \E media \in content : isBinaryContentType(media) THEN "binary"
    ELSE IF S_html \in content THEN "html"
    ELSE IF S_json \in content THEN "json"
    ELSE "none"

MediaTypes ==
    {S_pdf, S_jpeg, S_mp4, S_mpeg, S_csv, S_json, S_plain, S_html,
     <<"i","m","a","g","e","/","p","n","g">>, <<"a","p","p","l","i","c","a","t","i","o","n","/","x","m","l">>}

InitContent ==
    /\ mediaTypes \in {ms \in SUBSET MediaTypes : Cardinality(ms) <= MaxMediaTypes}
    /\ handling = NoResult
    /\ NamesIdle
    /\ GenIdle
    /\ ClientIdle
    /\ TypesIdle
    /\ MainIdle

\* isBinaryContentType is asked about one of the declared content types.
IsBinaryContentType ==
    /\ handling = NoResult
    /\ \E media \in mediaTypes :
          handling' = [op |-> "isBinaryContentType", media |-> media,
                       binary |-> isBinaryContentType(media)]
    /\ UNCHANGED <<mainVars, typeVars, mediaTypes, nameVars, genVars, clientVars>>

\* The handler of the response is picked.
PickHandler ==
    /\ handling = NoResult
    /\ handling' = [op |-> "responseHandler", handler |-> responseHandler(mediaTypes)]
    /\ UNCHANGED <<mainVars, typeVars, mediaTypes, nameVars, genVars, clientVars>>

NextContent == IsBinaryContentType \/ PickHandler

SpecContent == InitContent /\ [][NextContent]_vars

MaxInterceptors == 2

RequestKinds == {"none", "options", "url", "both", "throw"}

ResponseKinds == {"none", "response", "throw"}

InterceptorLists(kinds) == UNION {[1..n -> kinds] : n \in 0..MaxInterceptors}

Mark(by, n) == [by |-> by, n |-> n]

\* The return blocks generateMethod emits: the bare return, or the JSON
\* decoding followed by toClientType.
ReturnBlocks == {"return", "json"}

NoOutcome == [kind |-> "pending"]

\* Call number c of a method with the given return block, before its first
\* statement after the URL is built: its options and URL are its own.
NewCall(c, block) ==
    [pc |-> "setHttpRequestHeaders", i |-> 1, block |-> block,
     options |-> <<Mark("built", c)>>, finalUrl |-> <<Mark("built", c)>>,
     response |-> <<>>, outcome |-> NoOutcome, log |-> <<>>]

InitClient ==
    /\ reqInterceptors \in InterceptorLists(RequestKinds)
    /\ respInterceptors \in InterceptorLists(ResponseKinds)
    /\ calls = <<>>
    /\ NamesIdle
    /\ GenIdle
    /\ ContentIdle
    /\ TypesIdle
    /\ MainIdle

\* A method is called; its URL and options are built.
StartCall ==
    /\ calls = <<>>
    /\ \E block \in ReturnBlocks : calls' = <<NewCall(1, block)>>
    /\ UNCHANGED <<mainVars, typeVars, reqInterceptors, respInterceptors, nameVars, genVars, contentVars>>

\* options = this.context.setHttpRequestHeaders(options)
SetHttpRequestHeaders ==
    \E c \in DOMAIN calls :
        /\ calls[c].pc = "setHttpRequestHeaders"
        /\ calls' = [calls EXCEPT ![c] =
              [@ EXCEPT !.pc = "request", !.i = 1,
                        !.options = Append(@, Mark("context", 0))]]
        /\ UNCHANGED <<mainVars, typeVars, reqInterceptors, respInterceptors, nameVars, genVars, contentVars>>

\* The for-of loop reaches the next request interceptor and calls it, or
\* finds none left.
CallRequestInterceptor ==
    \E c \in DOMAIN calls :
        /\ calls[c].pc = "request"
        /\ calls' = [calls EXCEPT ![c] =
              IF calls[c].i <= Len(reqInterceptors)
              THEN [@ EXCEPT
                       !.pc = "awaitRequest",
                       !.log = Append(@, [ev |-> "request", n |-> calls[c].i,
                                          options |-> calls[c].options,
                                          url |-> calls[c].finalUrl])]
              ELSE [@ EXCEPT !.pc = "fetch"]]
        /\ UNCHANGED <<mainVars, typeVars, reqInterceptors, respInterceptors, nameVars, genVars, contentVars>>

\* The awaited request interceptor settles; its result is applied.
RequestInterceptorSettles ==
    \E c \in DOMAIN calls :
        /\ calls[c].pc = "awaitRequest"
        /\ LET kind == reqInterceptors[calls[c].i]
               mark == Mark("request", calls[c].i)
           IN calls' = [calls EXCEPT ![c] =
                 IF kind = "throw"
                 THEN [@ EXCEPT !.pc = "rejected",
                                !.outcome = [kind |-> "rejected",
                                             error |-> [name |-> "interceptor"]],
                                !.log = Append(@, [ev |-> "rejected"])]
                 ELSE [@ EXCEPT
                          !.pc = "request",
                          !.i = @ + 1,
                          !.options = IF kind \in {"options", "both"}
                                      THEN Append(@, mark) ELSE @,
                          !.finalUrl = IF kind \in {"url", "both"}
                                       THEN Append(@, mark) ELSE @,
                          !.log = Append(@, [ev |-> "requestSettled",
                                             n |-> calls[c].i])]]
        /\ UNCHANGED <<mainVars, typeVars, reqInterceptors, respInterceptors, nameVars, genVars, contentVars>>

\* fetch with the options and the URL as they were before the request
\* interceptors ran.
FetchBeforeInterceptors ==
    \E c \in DOMAIN calls :
        /\ calls[c].pc = "fetch"
        /\ \E ok \in BOOLEAN :
              calls' = [calls EXCEPT ![c] =
                 [@ EXCEPT
                     !.pc = "response",
                     !.i = 1,
                     !.response = <<[ok |-> ok, by |-> 0, call |-> c]>>,
                     !.log = Append(@, [ev |-> "fetch",
                                        options |-> <<Mark("built", c),
                                                      Mark("context", 0)>>,
                                        url |-> <<Mark("built", c)>>])]]
        /\ UNCHANGED <<mainVars, typeVars, reqInterceptors, respInterceptors, nameVars, genVars, contentVars>>

\* let response = await fetch(finalUrl, options)
Fetch ==
    \E c \in DOMAIN calls :
        /\ calls[c].pc = "fetch"
        /\ \E ok \in BOOLEAN :
              calls' = [calls EXCEPT ![c] =
                 [@ EXCEPT
                     !.pc = "response",
                     !.i = 1,
                     !.response = <<[ok |-> ok, by |-> 0, call |-> c]>>,
                     !.log = Append(@, [ev |-> "fetch",
                                        options |-> calls[c].options,
                                        url |-> calls[c].finalUrl])]]
        /\ UNCHANGED <<mainVars, typeVars, reqInterceptors, respInterceptors, nameVars, genVars, contentVars>>

\* The for-of loop reaches the next response interceptor and calls it, or
\* finds none left.
CallResponseInterceptor ==
    \E c \in DOMAIN calls :
        /\ calls[c].pc = "response"
        /\ calls' = [calls EXCEPT ![c] =
              IF calls[c].i <= Len(respInterceptors)
              THEN [@ EXCEPT
                       !.pc = "awaitResponse",
                       !.log = Append(@, [ev |-> "response", n |-> calls[c].i,
                                          response |-> calls[c].response,
                                          options |-> calls[c].options,
                                          url |-> calls[c].finalUrl])]
              ELSE [@ EXCEPT !.pc = "checkOk"]]
        /\ UNCHANGED <<mainVars, typeVars, reqInterceptors, respInterceptors, nameVars, genVars, contentVars>>

\* The response kept in one place for all calls in flight: the result of a
\* response interceptor replaces the response of every call that has one.
ResponseSharedByCalls ==
    \E c \in DOMAIN calls :
        /\ calls[c].pc = "awaitResponse"
        /\ LET kind == respInterceptors[calls[c].i]
           IN \E ok \in BOOLEAN :
                 calls' = [d \in DOMAIN calls |->
                    IF d # c
                    THEN IF kind = "response" /\ calls[d].response # <<>>
                         THEN [calls[d] EXCEPT
                                  !.response = Append(@, [ok |-> ok, by |-> calls[c].i,
                                                          call |-> c])]
                         ELSE calls[d]
                    ELSE IF kind = "throw"
                    THEN [calls[c] EXCEPT
                             !.pc = "rejected",
                             !.outcome = [kind |-> "rejected",
                                          error |-> [name |-> "interceptor"]],
                             !.log = Append(@, [ev |-> "rejected"])]
                    ELSE [calls[c] EXCEPT
                             !.pc = "response",
                             !.i = @ + 1,
                             !.response =
                                 IF kind = "response"
                                 THEN Append(@, [ok |-> ok, by |-> calls[c].i,
                                                 call |-> c])
                                 ELSE @,
                             !.log = Append(@, [ev |-> "responseSettled",
                                                n |-> calls[c].i])]]
        /\ UNCHANGED <<mainVars, typeVars, reqInterceptors, respInterceptors, nameVars, genVars, contentVars>>

\* The awaited response interceptor settles; its result is applied.  The
\* response it returns has the status its author gives it.
ResponseInterceptorSettles ==
    \E c \in DOMAIN calls :
        /\ calls[c].pc = "awaitResponse"
        /\ LET kind == respInterceptors[calls[c].i]
           IN \E ok \in BOOLEAN :
                 calls' = [calls EXCEPT ![c] =
                    IF kind = "throw"
                    THEN [@ EXCEPT !.pc = "rejected",
                                   !.outcome = [kind |-> "rejected",
                                                error |-> [name |-> "interceptor"]],
                                   !.log = Append(@, [ev |-> "rejected"])]
                    ELSE [@ EXCEPT
                             !.pc = "response",
                             !.i = @ + 1,
                             !.response =
                                 IF kind = "response"
                                 THEN Append(@, [ok |-> ok, by |-> calls[c].i,
                                                 call |-> c])
                                 ELSE @,
                             !.log = Append(@, [ev |-> "responseSettled",
                                                n |-> calls[c].i])]]
        /\ UNCHANGED <<mainVars, typeVars, reqInterceptors, respInterceptors, nameVars, genVars, contentVars>>

\* The response the method holds.
responseOf(call) == call.response[Len(call.response)]

\* The success path entered although the response is not ok.
CheckOkIgnoringStatus ==
    \E c \in DOMAIN calls :
        /\ calls[c].pc = "checkOk"
        /\ calls' = [calls EXCEPT ![c] =
              [@ EXCEPT
                  !.pc = "return",
                  !.log = Append(@, [ev |-> "checkOk",
                                     response |-> calls[c].response])]]
        /\ UNCHANGED <<mainVars, typeVars, reqInterceptors, respInterceptors, nameVars, genVars, contentVars>>

\* if (!response.ok): the error body is read; otherwise the return block.
CheckOk ==
    \E c \in DOMAIN calls :
        /\ calls[c].pc = "checkOk"
        /\ calls' = [calls EXCEPT ![c] =
              [@ EXCEPT
                  !.pc = IF responseOf(calls[c]).ok
                         THEN "return" ELSE "awaitError",
                  !.log = Append(@, [ev |-> "checkOk",
                                     response |-> calls[c].response])]]
        /\ UNCHANGED <<mainVars, typeVars, reqInterceptors, respInterceptors, nameVars, genVars, contentVars>>

\* What response.json() settles with: a value, or a rejection when the body
\* is not JSON.  An error object has a code, a message and, optionally,
\* fieldErrors.
Undefined == [undefined |-> TRUE]

NotJSON == [json |-> FALSE]

ErrorBodies ==
    {[json |-> TRUE, code |-> code, message |-> "message", fieldErrors |-> fe] :
        code \in {"invalid", "forbidden"},
        fe \in {Undefined, [name |-> "required"]}}

DataBody == [json |-> TRUE, data |-> "data"]

\* new ApiError(code, message, fieldErrors)
ApiError(code, message, fieldErrors) ==
    [name |-> "ApiError", code |-> code, message |-> message,
     fieldErrors |-> fieldErrors]

\* const errMessage: APIError = await response.json();
\* throw new ApiError(errMessage.code, errMessage.message, errMessage.fieldErrors)
ThrowApiError ==
    \E c \in DOMAIN calls :
        /\ calls[c].pc = "awaitError"
        /\ \E errMessage \in ErrorBodies \cup {NotJSON} :
              calls' = [calls EXCEPT ![c] =
                 [@ EXCEPT
                     !.pc = "rejected",
                     !.outcome =
                         [kind |-> "rejected",
                          error |-> IF errMessage = NotJSON
                                    THEN [name |-> "SyntaxError"]
                                    ELSE ApiError(errMessage.code,
                                                  errMessage.message,
                                                  errMessage.fieldErrors)],
                     !.log = Append(@, [ev |-> "errorBody", body |-> errMessage,
                                        response |-> responseOf(calls[c])])]]
        /\ UNCHANGED <<mainVars, typeVars, reqInterceptors, respInterceptors, nameVars, genVars, contentVars>>

\* The return block: "return;" or "const data = await response.json();".
Return ==
    \E c \in DOMAIN calls :
        /\ calls[c].pc = "return"
        /\ calls' = [calls EXCEPT ![c] =
              IF calls[c].block = "return"
              THEN [@ EXCEPT !.pc = "returned",
                             !.outcome = [kind |-> "returned", value |-> Undefined],
                             !.log = Append(@, [ev |-> "return",
                                                response |-> responseOf(calls[c])])]
              ELSE [@ EXCEPT !.pc = "awaitData"]]
        /\ UNCHANGED <<mainVars, typeVars, reqInterceptors, respInterceptors, nameVars, genVars, contentVars>>

\* The awaited response.json() of the success path settles:
\* return toClientType(data).
ReturnToClientType ==
    \E c \in DOMAIN calls :
        /\ calls[c].pc = "awaitData"
        /\ \E data \in {DataBody, NotJSON} :
              calls' = [calls EXCEPT ![c] =
                 [@ EXCEPT
                     !.pc = IF data = NotJSON THEN "rejected" ELSE "returned",
                     !.outcome =
                         IF data = NotJSON
                         THEN [kind |-> "rejected", error |-> [name |-> "SyntaxError"]]
                         ELSE [kind |-> "returned",
                               value |-> [toClientType |-> data.data]],
                     !.log = Append(@, [ev |-> "json", body |-> data,
                                        response |-> responseOf(calls[c])])]]
        /\ UNCHANGED <<mainVars, typeVars, reqInterceptors, respInterceptors, nameVars, genVars, contentVars>>

NextClient ==
    \/ StartCall
    \/ SetHttpRequestHeaders
    \/ CallRequestInterceptor
    \/ RequestInterceptorSettles
    \/ Fetch
    \/ CallResponseInterceptor
    \/ ResponseInterceptorSettles
    \/ CheckOk
    \/ ThrowApiError
    \/ Return
    \/ ReturnToClientType

SpecClient == InitClient /\ [][NextClient]_vars

\* The options and the URL that the first k request interceptors leave.
RECURSIVE optionsAfter(_, _)
optionsAfter(c, k) ==
    IF k = 0 THEN <<Mark("built", c), Mark("context", 0)>>
    ELSE IF reqInterceptors[k] \in {"options", "both"}
    THEN Append(optionsAfter(c, k - 1), Mark("request", k))
    ELSE optionsAfter(c, k - 1)

RECURSIVE urlAfter(_, _)
urlAfter(c, k) ==
    IF k = 0 THEN <<Mark("built", c)>>
    ELSE IF reqInterceptors[k] \in {"url", "both"}
    THEN Append(urlAfter(c, k - 1), Mark("request", k))
    ELSE urlAfter(c, k - 1)

\* Whether the log holds the event ev of interceptor n before position j.
loggedBefore(log, j, ev, n) ==
    \E h \in 1..(j - 1) : log[h].ev = ev /\ log[h].n = n

\* Whether entry j - 1 of the log is the settling of interceptor n.
settledJustBefore(log, j, ev, n) ==
    j > 1 /\ log[j - 1].ev = ev /\ log[j - 1].n = n

\* The response that response interceptor n leaves, given the one it saw
\* and the one the method holds afterwards.
leftBy(n, seen, after) ==
    IF respInterceptors[n] = "response"
    THEN /\ Len(after) = Len(seen) + 1
         /\ SubSeq(after, 1, Len(seen)) = seen
         /\ after[Len(after)].by = n
    ELSE after = seen

\* C10: in a call of a synthesized method the request interceptors are
\* awaited one at a time in registration order before the dispatch, each
\* seeing the options and URL the previous one left; the dispatch uses what
\* the last one left; the response interceptors are awaited one at a time
\* in registration order after the dispatch and before the status check,
\* each seeing the response the previous one left.
C10_InterceptorOrder ==
    \A c \in DOMAIN calls :
        LET log == calls[c].log
        IN \A j \in DOMAIN log :
              /\ log[j].ev = "request" =>
                    /\ log[j].options = optionsAfter(c, log[j].n - 1)
                    /\ log[j].url = urlAfter(c, log[j].n - 1)
                    /\ IF log[j].n = 1 THEN j = 1
                       ELSE settledJustBefore(log, j, "requestSettled", log[j].n - 1)
                    /\ \A h \in 1..(j - 1) : log[h].ev # "fetch"
              /\ log[j].ev = "fetch" =>
                    /\ log[j].options = optionsAfter(c, Len(reqInterceptors))
                    /\ log[j].url = urlAfter(c, Len(reqInterceptors))
                    /\ \A n \in DOMAIN reqInterceptors :
                          /\ loggedBefore(log, j, "request", n)
                          /\ loggedBefore(log, j, "requestSettled", n)
              /\ log[j].ev = "response" =>
                    /\ \E h \in 1..(j - 1) : log[h].ev = "fetch"
                    /\ IF log[j].n = 1 THEN log[j - 1].ev = "fetch"
                       ELSE /\ settledJustBefore(log, j, "responseSettled", log[j].n - 1)
                            /\ log[j - 2].ev = "response"
                            /\ log[j - 2].n = log[j].n - 1
                            /\ leftBy(log[j].n - 1, log[j - 2].response, log[j].response)
                    /\ \A h \in 1..(j - 1) : log[h].ev # "checkOk"
              /\ log[j].ev = "checkOk" =>
                    /\ \E h \in 1..(j - 1) : log[h].ev = "fetch"
                    /\ \A n \in DOMAIN respInterceptors :
                          /\ loggedBefore(log, j, "response", n)
                          /\ loggedBefore(log, j, "responseSettled", n)
                    /\ Len(respInterceptors) > 0 =>
                          /\ log[j - 2].ev = "response"
                          /\ log[j - 2].n = Len(respInterceptors)
                          /\ leftBy(Len(respInterceptors), log[j - 2].response,
                                    log[j].response)

\* A call went through two request interceptors that both replaced
\* something and two response interceptors, the first replacing the
\* response, and reached its status check.
C10_Witness ==
    /\ Len(reqInterceptors) = 2
    /\ reqInterceptors[1] = "both"
    /\ reqInterceptors[2] = "options"
    /\ Len(respInterceptors) = 2
    /\ respInterceptors[1] = "response"
    /\ Len(calls) = 1
    /\ calls[1].pc = "return"
    /\ \E j \in DOMAIN calls[1].log : calls[1].log[j].ev = "checkOk"

\* The position of the status check in the log of a call, 0 when the call
\* has not reached it.
checkedAt(log) ==
    IF \E j \in DOMAIN log : log[j].ev = "checkOk"
    THEN CHOOSE j \in DOMAIN log : log[j].ev = "checkOk"
    ELSE 0

\* Whether the response the status check saw was ok.
checkedOk(log) ==
    LET seen == log[checkedAt(log)].response IN seen[Len(seen)].ok

InitConcurrent ==
    /\ reqInterceptors \in [1..2 -> {"options", "url"}]
    /\ respInterceptors \in [1..2 -> {"none", "response"}]
    /\ calls = <<>>
    /\ NamesIdle
    /\ GenIdle
    /\ ContentIdle
    /\ TypesIdle
    /\ MainIdle

\* A second method is called while the first call is in flight or over.
StartSecondCall ==
    /\ Len(calls) = 1
    /\ \E block \in ReturnBlocks : calls' = Append(calls, NewCall(2, block))
    /\ UNCHANGED <<mainVars, typeVars, reqInterceptors, respInterceptors, nameVars, genVars, contentVars>>

NextConcurrent ==
    \/ StartCall
    \/ StartSecondCall
    \/ SetHttpRequestHeaders
    \/ CallRequestInterceptor
    \/ RequestInterceptorSettles
    \/ Fetch
    \/ CallResponseInterceptor
    \/ ResponseInterceptorSettles
    \/ CheckOk
    \/ ThrowApiError
    \/ Return
    \/ ReturnToClientType

SpecConcurrent == InitConcurrent /\ [][NextConcurrent]_vars

\* The number of events ev among the first j - 1 entries of the log.
countBefore(log, j, ev) == Cardinality({h \in 1..(j - 1) : log[h].ev = ev})

\* The response that the first k response interceptors leave of the
\* fetched one, as far as who made it goes.
RECURSIVE makersAfter(_)
makersAfter(k) ==
    IF k = 0 THEN <<0>>
    ELSE IF respInterceptors[k] = "response" THEN Append(makersAfter(k - 1), k)
    ELSE makersAfter(k - 1)

\* C12: two calls in flight at once share no mutable state.  The options,
\* the URL and the response of a call are made of what the call itself
\* built, fetched and got from its own interceptor runs, whatever the other
\* call does in between, and each call sees its interceptors run in
\* registration order on its own values.
C12_NoSharedState ==
    \A c \in DOMAIN calls :
        LET call == calls[c]
            log == call.log
        IN /\ call.options[1] = Mark("built", c)
           /\ call.finalUrl[1] = Mark("built", c)
           /\ \A r \in DOMAIN call.response : call.response[r].call = c
           /\ call.pc \in {"response", "awaitResponse"} =>
                 [r \in DOMAIN call.response |-> call.response[r].by]
                     = makersAfter(countBefore(log, Len(log) + 1, "responseSettled"))
           /\ \A j \in DOMAIN log :
                 /\ log[j].ev = "request" =>
                       /\ log[j].n = countBefore(log, j, "requestSettled") + 1
                       /\ log[j].options = optionsAfter(c, log[j].n - 1)
                       /\ log[j].url = urlAfter(c, log[j].n - 1)
                 /\ log[j].ev = "fetch" =>
                       /\ log[j].options = optionsAfter(c, Len(reqInterceptors))
                       /\ log[j].url = urlAfter(c, Len(reqInterceptors))
                 /\ log[j].ev = "response" =>
                       /\ log[j].n = countBefore(log, j, "responseSettled") + 1
                       /\ \A r \in DOMAIN log[j].response : log[j].response[r].call = c
                       /\ [r \in DOMAIN log[j].response |-> log[j].response[r].by]
                             = makersAfter(log[j].n - 1)
                       /\ log[j].options = optionsAfter(c, Len(reqInterceptors))
                       /\ log[j].url = urlAfter(c, Len(reqInterceptors))

\* Two calls are awaiting response interceptors at once, the first its
\* second and the second its first, holding responses of different status.
C12_Witness ==
    /\ Len(calls) = 2
    /\ calls[1].pc = "awaitResponse"
    /\ calls[1].i = 2
    /\ calls[2].pc = "awaitResponse"
    /\ calls[2].i = 1
    /\ respInterceptors = <<"response", "response">>
    /\ reqInterceptors = <<"options", "url">>
    /\ calls[1].response[1].ok # calls[2].response[1].ok
=============================================================================
